---- MODULE Spec2Model ----
(***************************************************************************)
(* Verification model of the expert-trajectory editor                      *)
(* (250813ExtractionOfExpertsBehaviorHistory.py, Streamlit part):          *)
(*   - load_excel_trajectory / parse_time_column  (the loader)             *)
(*   - initialize_waypoints_from_trajectory       (control-point sampling) *)
(*   - interpolate_path                           (path reconstruction)    *)
(*   - the edit session kept in st.session_state  (load, select, move,     *)
(*     simple-edit points, drawn path, apply, save/reset)                  *)
(* and of the chart canvas of the PyQt simulator                           *)
(* (250808ExtractionOfExpertsBehaviorHistory.py, SimCanvas):               *)
(*   - convert_latlon_to_xy, wheelEvent, mousePressEvent                   *)
(*                                                                         *)
(* Numbers.  Coordinates and times are integers on a small grid; every     *)
(* derived real (np.linspace samples, linear interpolation) is an exact    *)
(* rational [k |-> "num", n, d] in lowest terms with d > 0.  The float     *)
(* results 0/0 and x/0 are the values NaN and Inf.  Grid points are chosen *)
(* so that every Euclidean distance between two of them is an integer, so  *)
(* np.sqrt is exact on them.                                               *)
(***************************************************************************)
EXTENDS Integers, Sequences, FiniteSets, TLC

VARIABLES
    pc,                 \* position of the modelled run
    file,               \* the uploaded sheet: [kind, rows]
    os_data,            \* the loaded trajectory: rows [time, lon, lat]
    arg_waypoints,      \* interpolate_path argument waypoints_df
    arg_steps,          \* interpolate_path argument total_time_steps
    result,             \* what interpolate_path returned or raised
    arg_traj,           \* initialize_waypoints_from_trajectory argument trajectory_df
    arg_count,          \* initialize_waypoints_from_trajectory argument num_waypoints
    wp_result,          \* what initialize_waypoints_from_trajectory returned
    \* st.session_state of the edit session (os_data above is one of its keys)
    waypoints,                  \* control points: rows [time, lon, lat]
    use_original_path,          \* show the loaded trajectory as the expert path
    cp_modification_history,    \* one entry per moved control point
    selected_waypoint_idx,      \* 0-based index of the selected control point
    clicked,                    \* clicked_lon / clicked_lat
    simple_edit_mode,           \* the "Simple Edit Mode" checkbox
    simple_edit_points,         \* edit points: [lon, lat, time, idx]
    selected_edit_point_idx,    \* 0-based index of the selected edit point
    draw_path_mode,             \* the "Draw Path Mode" checkbox
    drawn_path_points,          \* points clicked in Draw Path Mode: [lon, lat, time]
    use_drawn_path,             \* show the drawn path as the expert path
    drawn_path,                 \* the converted drawn path, <<>> for None
    saved,                      \* path_source of the last file saved
    runs,                       \* script runs of the session so far
    \* SimCanvas of the PyQt simulator (250808ExtractionOfExpertsBehaviorHistory.py)
    arg_lat,            \* convert_latlon_to_xy argument lat, in degrees
    arg_lon,            \* convert_latlon_to_xy argument lon, in degrees
    center_lat,         \* SimCanvas.center_lat
    center_lon,         \* SimCanvas.center_lon
    zoom_level,         \* SimCanvas.zoom_level
    xy,                 \* what convert_latlon_to_xy returned: <<x, y>>
    event,              \* position of the mouse press: <<x, y>>
    version,            \* the script that runs: "250808" or "250813"
    ships,              \* SimCanvas.ships: [x, y, heading, bearing]
    os_heading,         \* SimCanvas.os_heading
    painted,            \* what draw_ship drew for each ship: [x, y, heading]
    \* SimulatorWindow of the PyQt simulator
    sim_ship_data,              \* SimulatorWindow.ship_data: rows [lat, lon, co]
    os_control_mode,            \* TRUE: manual control, FALSE: AIS auto
    os_manual_position,         \* [heading] of the manually steered own ship
    os_heading_wheel,           \* value of the heading dial
    os_initial_position_set,
    current_time_index,
    scenario_end_time,
    is_simulation_running,      \* the simulation timer is active
    is_scenario_completed,
    ownship,                    \* SimCanvas.ownship: [heading], <<>> for None
    update_error,               \* update_simulation printed "Simulation update error"
    \* st.session_state of the animation panel, times in hundredths of a second
    current_time,               \* st.session_state['current_time']
    is_playing,                 \* st.session_state['is_playing']
    min_time,                   \* st.session_state['min_time']
    max_time,                   \* st.session_state['max_time']
    playback_speed,             \* the "Playback Speed" slider, in tenths
    time_slider                 \* st.session_state['time_slider'], None if absent

calls == <<arg_waypoints, arg_steps, result, arg_traj, arg_count, wp_result>>
drawing == <<draw_path_mode, drawn_path_points, use_drawn_path, drawn_path>>
session == <<waypoints, use_original_path, cp_modification_history,
             selected_waypoint_idx, clicked, simple_edit_mode,
             simple_edit_points, selected_edit_point_idx, drawing, saved>>
radar == <<version, ships, os_heading, painted>>
window == <<sim_ship_data, os_control_mode, os_manual_position, os_heading_wheel,
            os_initial_position_set, current_time_index, scenario_end_time,
            is_simulation_running, is_scenario_completed, ownship,
            update_error>>
playback == <<current_time, is_playing, min_time, max_time, playback_speed,
              time_slider>>
canvas == <<arg_lat, arg_lon, center_lat, center_lon, zoom_level, xy, event,
            radar, window, playback>>
vars == <<pc, file, os_data, calls, session, runs, canvas>>

-----------------------------------------------------------------------------
(* Bounds of the model *)
MaxCP == 4          \* longest control-point sequence given to interpolate_path
MaxSteps == 3       \* largest total_time_steps
MaxLen == 2         \* longest time column of a loaded sheet
MaxTraj == 4        \* longest trajectory given to initialize_waypoints
MaxTime == 4        \* largest sample time of such a trajectory
MaxCount == 6       \* largest requested num_waypoints

None == -1          \* Python None where a count is expected
NoFile == [kind |-> "none", rows |-> <<>>]
NoResult == [raised |-> FALSE, rows |-> <<>>]
NoClick == [lon |-> None, lat |-> None]
NoSave == ""

\* st.session_state before anything is loaded
NoSession ==
    /\ waypoints = <<>>
    /\ use_original_path = TRUE
    /\ cp_modification_history = <<>>
    /\ selected_waypoint_idx = None
    /\ clicked = NoClick
    /\ simple_edit_mode = FALSE
    /\ simple_edit_points = <<>>
    /\ selected_edit_point_idx = None
    /\ draw_path_mode = FALSE
    /\ drawn_path_points = <<>>
    /\ use_drawn_path = FALSE
    /\ drawn_path = <<>>
    /\ saved = NoSave
    /\ runs = 0

\* SimCanvas after __init__, no target ship set, nothing painted
NoRadar ==
    /\ version = "250813"
    /\ ships = <<>>
    /\ os_heading = 0
    /\ painted = <<>>

NoShips == [OS |-> <<>>, TS1 |-> <<>>, TS2 |-> <<>>]
\* SimulatorWindow after __init__, no file imported
NoWindow ==
    /\ sim_ship_data = NoShips
    /\ os_control_mode = FALSE
    /\ os_manual_position = [heading |-> [k |-> "num", n |-> 0, d |-> 1]]
    /\ os_heading_wheel = 0
    /\ os_initial_position_set = FALSE
    /\ current_time_index = 0
    /\ scenario_end_time = 300
    /\ is_simulation_running = FALSE
    /\ is_scenario_completed = FALSE
    /\ ownship = <<>>
    /\ update_error = FALSE

\* the animation panel before a trajectory is loaded
NoPlayback ==
    /\ current_time = 0
    /\ is_playing = FALSE
    /\ min_time = 0
    /\ max_time = 0
    /\ playback_speed = 10
    /\ time_slider = None

\* SimCanvas after __init__, nothing converted or pressed
NoCanvas ==
    /\ arg_lat = [k |-> "num", n |-> 0, d |-> 1]
    /\ arg_lon = [k |-> "num", n |-> 0, d |-> 1]
    /\ center_lat = [k |-> "num", n |-> 0, d |-> 1]
    /\ center_lon = [k |-> "num", n |-> 0, d |-> 1]
    /\ zoom_level = [k |-> "num", n |-> 1, d |-> 1]
    /\ xy = <<>>
    /\ event = <<>>
    /\ NoRadar
    /\ NoWindow
    /\ NoPlayback

-----------------------------------------------------------------------------
(* Exact arithmetic *)
Abs(a) == IF a < 0 THEN -a ELSE a
Min(a, b) == IF a <= b THEN a ELSE b
Max(a, b) == IF a >= b THEN a ELSE b

RECURSIVE GCD(_, _)
GCD(a, b) == IF b = 0 THEN a ELSE GCD(b, a % b)

\* the rational n/d (d # 0) in lowest terms
Num(n, d) ==
    LET s == IF d < 0 THEN -1 ELSE 1
        g == GCD(Abs(n), Abs(d))
    IN  [k |-> "num", n |-> (s * n) \div g, d |-> (s * d) \div g]
Int2V(i) == [k |-> "num", n |-> i, d |-> 1]
NaN == [k |-> "nan", n |-> 0, d |-> 1]
Inf == [k |-> "inf", n |-> 0, d |-> 1]
\* value of the fitted cubic at abscissa n/d strictly between two knots
SplineAt(n, d) == [k |-> "spline", n |-> Num(n, d).n, d |-> Num(n, d).d]

IsNum(v) == v.k = "num"
\* v <= w on floats: false as soon as one side is NaN
VLeq(v, w) == IsNum(v) /\ IsNum(w) /\ v.n * w.d <= w.n * v.d
VLt(v, w) == IsNum(v) /\ IsNum(w) /\ v.n * w.d < w.n * v.d

RECURSIVE ISqrtFrom(_, _)
ISqrtFrom(n, r) == IF (r + 1) * (r + 1) > n THEN r ELSE ISqrtFrom(n, r + 1)
\* np.sqrt on the perfect squares the grid produces
Sqrt(n) == ISqrtFrom(n, 0)
IsSquare(n) == Sqrt(n) * Sqrt(n) = n

\* np.clip(a, lo, hi) == minimum(maximum(a, lo), hi)
Clip(a, lo, hi) == Min(Max(a, lo), hi)

\* np.linspace(a, b, m)[j] for j in 0..m-1, as a fraction <<numerator, denominator>>
Linspace(a, b, m, j) ==
    IF m = 1 THEN <<a, 1>> ELSE <<a * (m - 1) + j * (b - a), m - 1>>

-----------------------------------------------------------------------------
(* The loader: load_excel_trajectory and parse_time_column.                *)
(* A sheet is [kind, rows]: the rows [time, lon, lat] of the selected ship *)
(* in the order of the sheet.  Its time cells are all numbers (seconds,    *)
(* kind "num") or all texts (kind "str"): a text is a zero-padded          *)
(* "MM/DD/YYYY" date, written <<mm, dd, yyyy>>.                            *)

\* a <= b as DataFrame.sort_values('time') compares the raw cells: numbers by
\* value, texts as Python strings (character by character, which for
\* fixed-width zero-padded fields is field by field in the written order)
CellLeq(kind, a, b) ==
    IF kind = "str"
    THEN \/ a[1] < b[1]
         \/ a[1] = b[1] /\ a[2] < b[2]
         \/ a[1] = b[1] /\ a[2] = b[2] /\ a[3] <= b[3]
    ELSE a <= b

\* row x put into the sorted rows s behind the rows whose time is <= x's
InsertRow(kind, x, s) ==
    LET k == Cardinality({i \in 1..Len(s) : CellLeq(kind, s[i].time, x.time)})
    IN  SubSeq(s, 1, k) \o <<x>> \o SubSeq(s, k + 1, Len(s))

RECURSIVE sort_values(_, _)
\* ship_data.sort_values('time').reset_index(drop=True)
sort_values(kind, rows) ==
    IF rows = <<>> THEN <<>>
    ELSE InsertRow(kind, rows[Len(rows)],
                   sort_values(kind, SubSeq(rows, 1, Len(rows) - 1)))

\* days of a non-leap year that precede month m
DaysBefore(m) == <<0, 31, 59, 90, 120, 151, 181, 212, 243, 273, 304, 334>>[m]
\* pd.to_datetime of a text, in days since 12/31/2022 (dates up to Feb 2024)
to_datetime(t) == 365 * (t[3] - 2023) + DaysBefore(t[1]) + t[2]

\* parse_time_column: texts become seconds since the first row; numbers make
\* the .dt accessor raise and are returned as they are
parse_time_column(kind, cells) ==
    IF kind = "str"
    THEN [i \in 1..Len(cells) |->
            86400 * (to_datetime(cells[i]) - to_datetime(cells[1]))]
    ELSE cells

\* the trajectory DataFrame load_excel_trajectory returns for a sheet that
\* has the ship's rows
load_excel_trajectory(f) ==
    LET ship_data == sort_values(f.kind, f.rows)
        time_seconds ==
            parse_time_column(f.kind, [i \in 1..Len(ship_data) |-> ship_data[i].time])
    IN  [i \in 1..Len(ship_data) |->
            [time |-> time_seconds[i], lon |-> ship_data[i].lon,
             lat |-> ship_data[i].lat]]

\* os_data['time'].values
TimeColumn(rows) == [i \in 1..Len(rows) |-> rows[i].time]

-----------------------------------------------------------------------------
(* scipy.interpolate.interp1d(x, y, kind, fill_value="extrapolate")        *)

\* kind='cubic' is fitted by make_interp_spline, which raises ValueError when
\* two abscissae are equal; kind='linear' accepts any x
interp1d_raises(x, kind) ==
    kind = "cubic" /\ \E i \in 1..(Len(x) - 1) : x[i] = x[i + 1]

\* interp1d._call_linear at x_new = sN/sD:
\*   idx = searchsorted(x, x_new).clip(1, len(x)-1); lo = idx-1; hi = idx
\*   slope = (y_hi - y_lo) / (x_hi - x_lo); y_new = slope*(x_new - x_lo) + y_lo
call_linear(x, y, sN, sD) ==
    LET n == Len(x)
        found == Cardinality({i \in 1..n : x[i] * sD < sN})
        hi == Clip(found, 1, n - 1)
        lo == hi - 1
        At(v, i) == IF i < 0 THEN v[n + i + 1] ELSE v[i + 1]
        x_lo == At(x, lo)
        x_hi == At(x, hi)
        y_lo == At(y, lo)
        y_hi == At(y, hi)
    IN  IF x_hi = x_lo
        THEN IF y_hi = y_lo \/ sN = x_lo * sD THEN NaN ELSE Inf
        ELSE Num(y_lo * (x_hi - x_lo) * sD + (y_hi - y_lo) * (sN - x_lo * sD),
                 (x_hi - x_lo) * sD)

\* the fitted cubic at x_new = sN/sD: the knot's ordinate at a knot, and the
\* spline's own value in between
call_cubic(x, y, sN, sD) ==
    IF \E i \in 1..Len(x) : x[i] * sD = sN
    THEN Int2V(y[CHOOSE i \in 1..Len(x) : x[i] * sD = sN])
    ELSE SplineAt(sN, sD)

interp1d_call(x, y, kind, sN, sD) ==
    IF kind = "cubic" THEN call_cubic(x, y, sN, sD) ELSE call_linear(x, y, sN, sD)

-----------------------------------------------------------------------------
(* interpolate_path(waypoints_df, total_time_steps, os_data)               *)
(* waypoints_df is a sequence of rows [time, lon, lat] (time a rational,   *)
(* lon and lat grid integers); os_data is the time column of the original *)
(* trajectory, or NoOs for os_data=None.  The result's rows hold rationals.*)
NoOs == <<>>

RECURSIVE cumulative_distances(_)
cumulative_distances(w) ==
    IF Len(w) = 1 THEN <<0>>
    ELSE LET prev == cumulative_distances(SubSeq(w, 1, Len(w) - 1))
             dx == w[Len(w)].lon - w[Len(w) - 1].lon
             dy == w[Len(w)].lat - w[Len(w) - 1].lat
         IN  Append(prev, prev[Len(prev)] + Sqrt(dx * dx + dy * dy))

\* the abscissa handed to interp1d
FitAbscissa(w) == cumulative_distances(w)

\* kind = 'cubic' if len(waypoints_df) > 3 else 'linear'
FitKind(w) == IF Len(w) > 3 THEN "cubic" ELSE "linear"

\* new_t with the index clock started at 1 instead of 0
new_t_from_one(m, os) ==
    IF os # NoOs
    THEN IF Len(os) # m
         THEN [j \in 1..m |->
                 LET t == Linspace(0, Len(os) - 1, m, j - 1)
                 IN  call_linear([i \in 1..Len(os) |-> i - 1], os, t[1], t[2])]
         ELSE [j \in 1..m |-> Int2V(os[j])]
    ELSE [j \in 1..m |-> Int2V(j)]

\* the time column of the result
new_t(m, os) ==
    IF os # NoOs
    THEN IF Len(os) # m
         THEN [j \in 1..m |->
                 LET t == Linspace(0, Len(os) - 1, m, j - 1)
                 IN  call_linear([i \in 1..Len(os) |-> i - 1], os, t[1], t[2])]
         ELSE [j \in 1..m |-> Int2V(os[j])]
    ELSE [j \in 1..m |-> Int2V(j - 1)]

interpolate_path(w, m, os) ==
    IF Len(w) < 2
    THEN [raised |-> FALSE,
          rows |-> [i \in 1..Len(w) |->
                      [time |-> w[i].time, lon |-> Int2V(w[i].lon),
                       lat |-> Int2V(w[i].lat)]]]
    ELSE LET x_points == [i \in 1..Len(w) |-> w[i].lon]
             y_points == [i \in 1..Len(w) |-> w[i].lat]
             cd == FitAbscissa(w)
             kind == FitKind(w)
             t == new_t(m, os)
         IN  IF interp1d_raises(cd, kind)
             THEN [raised |-> TRUE, rows |-> <<>>]
             ELSE [raised |-> FALSE,
                   rows |-> [j \in 1..m |->
                      LET s == Linspace(cd[1], cd[Len(cd)], m, j - 1)
                      IN  [time |-> t[j],
                           lon |-> interp1d_call(cd, x_points, kind, s[1], s[2]),
                           lat |-> interp1d_call(cd, y_points, kind, s[1], s[2])]]]

-----------------------------------------------------------------------------
(* Input domains *)

\* grid positions <<lon, lat>>: any two of them are 0, 3, 4 or 5 apart
GridPoints == {<<1, 1>>, <<4, 1>>, <<4, 5>>}
\* sample i of a sheet or trajectory lies at (3i, 4i): every sample has its own
\* position and any two samples are a multiple of 5 apart
SampleLon(i) == 3 * i
SampleLat(i) == 4 * i

\* all sequences over S of length lo..hi
SeqsOf(S, lo, hi) == UNION {[1..n -> S] : n \in lo..hi}

\* control points: n grid positions in drawing order, their times dt apart
WaypointsOn(ps, dt) ==
    [i \in 1..Len(ps) |->
        [time |-> Int2V(dt * (i - 1)), lon |-> ps[i][1], lat |-> ps[i][2]]]
CpStrides == {1, 10}
WaypointArgs ==
    {WaypointsOn(ps, dt) : ps \in SeqsOf(GridPoints, 1, MaxCP), dt \in CpStrides}

\* sheets of two or more rows, their time cells in the order of the rows
NumCells == {0, 5, 20}
StrCells == {<<12, 31, 2023>>, <<1, 1, 2024>>, <<1, 2, 2024>>}
SheetOn(kind, cells) ==
    [kind |-> kind,
     rows |-> [i \in 1..Len(cells) |->
                 [time |-> cells[i], lon |-> SampleLon(i), lat |-> SampleLat(i)]]]
Files == {SheetOn("num", c) : c \in SeqsOf(NumCells, 2, MaxLen)}
         \cup {SheetOn("str", c) : c \in SeqsOf(StrCells, 2, MaxLen)}

-----------------------------------------------------------------------------
(* SpecInterp: one call of interpolate_path, on a freshly loaded time      *)
(* vector or on none                                                       *)

InitInterp ==
    /\ pc = "start"
    /\ file \in Files \cup {NoFile}
    /\ os_data = <<>>
    /\ arg_waypoints \in WaypointArgs
    /\ arg_steps \in 2..MaxSteps
    /\ result = NoResult
    /\ arg_traj = <<>>
    /\ arg_count = 0
    /\ wp_result = <<>>
    /\ NoSession
    /\ NoCanvas

LoadExcelTrajectory ==
    /\ pc = "start"
    /\ file # NoFile
    /\ os_data' = load_excel_trajectory(file)
    /\ pc' = "loaded"
    /\ UNCHANGED <<file, calls, session, runs, canvas>>

InterpolatePath ==
    /\ pc = "loaded" \/ (pc = "start" /\ file = NoFile)
    /\ result' = interpolate_path(arg_waypoints, arg_steps, TimeColumn(os_data))
    /\ pc' = "done"
    /\ UNCHANGED <<file, os_data, arg_waypoints, arg_steps, arg_traj, arg_count,
                   wp_result, session, runs, canvas>>

NextInterp == LoadExcelTrajectory \/ InterpolatePath

SpecInterp == InitInterp /\ [][NextInterp]_vars

-----------------------------------------------------------------------------
(* initialize_waypoints_from_trajectory(trajectory_df, num_waypoints)      *)
(* trajectory_df is a sequence of rows [time, lon, lat] of integers.       *)

\* searchsorted turned into a search for the last sample not after t
searchsorted_preceding(times, tN, tD) ==
    Max(0, Cardinality({i \in 1..Len(times) : times[i] * tD <= tN}) - 1)

\* np.searchsorted(times, t) for t = tN/tD: the number of samples before t
searchsorted(times, tN, tD) ==
    Cardinality({i \in 1..Len(times) : times[i] * tD < tN})

\* num_waypoints_used with the count clamped to [2, n]
num_waypoints_clamped(n, num) ==
    Clip(IF num = None THEN Min(Max(3, n \div 20), 10) ELSE num, 2, n)

\* the number of waypoints placed on a trajectory of n samples
num_waypoints_used(n, num) ==
    IF num = None THEN Min(Max(3, n \div 20), 10) ELSE num

RECURSIVE SeqMin(_)
SeqMin(q) == IF Len(q) = 1 THEN q[1] ELSE Min(q[1], SeqMin(Tail(q)))
RECURSIVE SeqMax(_)
SeqMax(q) == IF Len(q) = 1 THEN q[1] ELSE Max(q[1], SeqMax(Tail(q)))

\* time_points[k], k in 1..n, as a fraction
time_points(times, n, k) ==
    IF n = 1 THEN <<SeqMin(times), 1>>
    ELSE Linspace(SeqMin(times), SeqMax(times), n, k - 1)

\* 0-based row of the trajectory whose position waypoint k copies
waypoint_idx(times, n, k) ==
    LET t == time_points(times, n, k)
    IN  Min(searchsorted(times, t[1], t[2]), Len(times) - 1)

initialize_waypoints_from_trajectory(traj, num) ==
    IF Len(traj) < 2
    THEN [i \in 1..Len(traj) |->
            [time |-> Int2V(traj[i].time), lon |-> traj[i].lon, lat |-> traj[i].lat]]
    ELSE LET times == [i \in 1..Len(traj) |-> traj[i].time]
             n == num_waypoints_used(Len(traj), num)
         IN  [k \in 1..n |->
                LET t == time_points(times, n, k)
                    idx == waypoint_idx(times, n, k)
                IN  [time |-> Num(t[1], t[2]),
                     lon |-> traj[idx + 1].lon, lat |-> traj[idx + 1].lat]]

-----------------------------------------------------------------------------
(* SpecWaypoints: one call of initialize_waypoints_from_trajectory         *)

IsSorted(q) == \A i \in 1..(Len(q) - 1) : q[i] <= q[i + 1]

\* a loaded trajectory: the loader leaves its numeric times sorted
TrajectoryOn(times) ==
    [i \in 1..Len(times) |->
        [time |-> times[i], lon |-> SampleLon(i), lat |-> SampleLat(i)]]
TrajectoryArgs ==
    {TrajectoryOn(q) : q \in {r \in SeqsOf(0..MaxTime, 1, MaxTraj) : IsSorted(r)}}

InitWaypoints ==
    /\ pc = "start"
    /\ arg_traj \in TrajectoryArgs
    /\ arg_count \in {None} \cup 0..MaxCount
    /\ wp_result = <<>>
    /\ file = NoFile
    /\ os_data = <<>>
    /\ arg_waypoints = <<>>
    /\ arg_steps = 0
    /\ result = NoResult
    /\ NoSession
    /\ NoCanvas

InitializeWaypoints ==
    /\ pc = "start"
    /\ wp_result' = initialize_waypoints_from_trajectory(arg_traj, arg_count)
    /\ pc' = "done"
    /\ UNCHANGED <<file, os_data, arg_waypoints, arg_steps, result, arg_traj,
                   arg_count, session, runs, canvas>>

NextWaypoints == InitializeWaypoints

SpecWaypoints == InitWaypoints /\ [][NextWaypoints]_vars

-----------------------------------------------------------------------------
(* The edit session: the "Expert Mode" page of the Streamlit script.  A    *)
(* user interaction runs the script once from the top with the session's   *)
(* state; the handler of the pressed widget takes effect if the run        *)
(* reaches it, and an uncaught exception ends the run where it is raised.  *)
(* Positions of the session lie on the samples' line (3c, 4c), so that     *)
(* every distance is an integer.                                           *)

\* osd.copy() as an expert path
OsPathOf(osd) ==
    [i \in 1..Len(osd) |->
        [time |-> Int2V(osd[i].time), lon |-> Int2V(osd[i].lon),
         lat |-> Int2V(osd[i].lat)]]
\* os_data.copy() as an expert path
OsPath == OsPathOf(os_data)

\* row x put into the sorted rows s behind the rows whose time is <= x's
InsertByTime(x, s) ==
    LET k == Cardinality({i \in 1..Len(s) : VLeq(s[i].time, x.time)})
    IN  SubSeq(s, 1, k) \o <<x>> \o SubSeq(s, k + 1, Len(s))

\* the edit points as waypoint rows in the order they were added
unsorted_by_time(rows) == rows

RECURSIVE sort_by_time(_)
\* edit_waypoints_df.sort_values('time').reset_index(drop=True)
sort_by_time(rows) ==
    IF rows = <<>> THEN <<>>
    ELSE InsertByTime(rows[Len(rows)], sort_by_time(SubSeq(rows, 1, Len(rows) - 1)))

\* the edit points converted to waypoints
edit_waypoints_df(eps) ==
    sort_by_time([i \in 1..Len(eps) |->
                    [time |-> eps[i].time, lon |-> eps[i].lon, lat |-> eps[i].lat]])

\* the expert path the page shows for these values of the session's keys, or
\* the ValueError of its reconstruction
ExpertPathOf(edit_mode, edit_points, use_drawn, drawn, use_original, wps, osd) ==
    IF edit_mode /\ Len(edit_points) > 0
    THEN interpolate_path(edit_waypoints_df(edit_points), Len(osd), TimeColumn(osd))
    ELSE IF use_drawn /\ drawn # <<>>
    THEN [raised |-> FALSE, rows |-> drawn]
    ELSE IF use_original
    THEN [raised |-> FALSE, rows |-> OsPathOf(osd)]
    ELSE IF Len(wps) > 0
    THEN interpolate_path(wps, Len(osd), TimeColumn(osd))
    ELSE [raised |-> FALSE, rows |-> OsPathOf(osd)]

\* the expert path the page shows in the current state
expert_path ==
    ExpertPathOf(simple_edit_mode, simple_edit_points, use_drawn_path, drawn_path,
                 use_original_path, waypoints, os_data)

\* the path the save section previews, with its path_source
preview_path ==
    IF use_drawn_path /\ drawn_path # <<>>
    THEN [raised |-> FALSE, rows |-> drawn_path, source |-> "Drawn Path"]
    ELSE IF use_original_path \/ Len(waypoints) = 0
    THEN [raised |-> FALSE, rows |-> OsPath, source |-> "Original Trajectory"]
    ELSE LET p == interpolate_path(waypoints, Len(os_data), TimeColumn(os_data))
         IN  [raised |-> p.raised, rows |-> p.rows,
              source |-> "Interpolated from Control Points"]

\* the run gets past st.stop() and the path reconstruction, to the chart and
\* the widgets below it
PageShown == os_data # <<>> /\ ~expert_path.raised
\* the run gets to the save section
SaveShown == PageShown /\ ~preview_path.raised

\* Python's "a or b" on numbers and None
Truthy(a) == a # None /\ a # 0
PyOr(a, b) == IF Truthy(a) THEN a ELSE b

\* A chart event carries one point: the trace's name ("" when the event has
\* none), lon and lat, and the point's index under some of the keys the
\* handler looks at (None, or NoList, where the key is absent).
NoList == <<>>
ControlPointsTrace == "Control Points (OS Waypoints)"
EditPointsTrace == "Edit Points"
PathTrace == "OS Trajectory (Expert Path)"
IndexKeys == {"pointIndex", "point_number", "pointIndexes"}
PointOn(name, lon, lat, k, keys) ==
    [name |-> name, lon |-> lon, lat |-> lat,
     pointIndex |-> IF keys = "point_number" THEN None ELSE k,
     point_number |-> IF keys = "point_number" THEN k ELSE None,
     pointIndexes |-> IF keys = "pointIndexes" THEN <<k>> ELSE NoList]

\* spots c of the map the user clicks: the position (3c, 4c)
ClickSpots == {2, 6}
\* the points a click on the shown chart delivers: a control-point marker
\* (while both edit modes are off), an edit-point marker, or the path at a spot
ChartPoints ==
    LET names(n) == {n, ""}
    IN  {PointOn(n, waypoints[k + 1].lon, waypoints[k + 1].lat, k, keys) :
            n \in names(ControlPointsTrace),
            k \in IF simple_edit_mode \/ draw_path_mode THEN {}
                  ELSE 0..(Len(waypoints) - 1),
            keys \in IndexKeys}
        \cup {PointOn(n, simple_edit_points[k + 1].lon, simple_edit_points[k + 1].lat,
                      k, keys) :
            n \in names(EditPointsTrace),
            k \in IF simple_edit_mode THEN 0..(Len(simple_edit_points) - 1) ELSE {},
            keys \in IndexKeys}
        \cup {PointOn(n, SampleLon(c), SampleLat(c), 0, "pointIndex") :
            n \in names(PathTrace), c \in ClickSpots}

\* squared distance of a path row from (lon, lat), as a fraction
Dist2(row, lon, lat) ==
    LET a == row.lon.n - lon * row.lon.d
        b == row.lat.n - lat * row.lat.d
    IN  <<a * a * row.lat.d * row.lat.d + b * b * row.lon.d * row.lon.d,
          row.lon.d * row.lon.d * row.lat.d * row.lat.d>>
FracLt(p, q) == p[1] * q[2] < q[1] * p[2]

\* the first row, whatever its distance
closest_idx_first(rows, lon, lat) == {0}

\* distances.idxmin(): the 0-based rows of the path that can be the closest to
\* (lon, lat).  NaN distances are skipped (none left: the call fails); where
\* the path has spline values the distances are not known to the model, and
\* any row can be the closest.
closest_idx(rows, lon, lat) ==
    LET valid == {j \in 1..Len(rows) : rows[j].lon.k # "nan" /\ rows[j].lat.k # "nan"}
        known == \A j \in valid : IsNum(rows[j].lon) /\ IsNum(rows[j].lat)
    IN  IF ~known THEN {j - 1 : j \in valid}
        ELSE {j - 1 : j \in {i \in valid :
                /\ \A h \in valid : ~FracLt(Dist2(rows[h], lon, lat), Dist2(rows[i], lon, lat))
                /\ \A h \in valid : h < i =>
                        FracLt(Dist2(rows[i], lon, lat), Dist2(rows[h], lon, lat))}}

-----------------------------------------------------------------------------
(* Spec: the edit session                                                 *)

MaxRuns == 7        \* most interactions of a session

\* sheets the user uploads: numeric time columns, and a sheet without the
\* required columns
NoColumns == [kind |-> "nocols", rows |-> <<>>]
SessionSheets ==
    {SheetOn("num", c) : c \in {<<7>>, <<0, 10>>, <<0, 10, 20, 30, 40>>}}
    \cup {NoColumns}

\* os_error of load_excel_trajectory
os_error(f) == f.kind = "nocols"

Init ==
    /\ pc = "session"
    /\ file = NoFile
    /\ os_data = <<>>
    /\ arg_waypoints = <<>>
    /\ arg_steps = 0
    /\ result = NoResult
    /\ arg_traj = <<>>
    /\ arg_count = 0
    /\ wp_result = <<>>
    /\ NoSession
    /\ NoCanvas

\* the user presses a widget: the script runs once more
Interaction ==
    /\ pc = "session"
    /\ runs < MaxRuns
    /\ runs' = runs + 1
    /\ UNCHANGED canvas

\* sidebar button "Load Trajectories"
LoadTrajectories ==
    /\ Interaction
    /\ \E f \in SessionSheets :
        IF os_error(f)
           THEN /\ os_data' = <<>>
                /\ waypoints' = <<>>
                /\ UNCHANGED <<use_original_path, cp_modification_history,
                               selected_waypoint_idx>>
           ELSE /\ os_data' = load_excel_trajectory(f)
                /\ waypoints' =
                     initialize_waypoints_from_trajectory(load_excel_trajectory(f), 5)
                /\ use_original_path' = TRUE
                /\ cp_modification_history' = <<>>
                /\ selected_waypoint_idx' = None
    /\ UNCHANGED <<drawing, pc, file, calls, clicked, simple_edit_mode, simple_edit_points,
                   selected_edit_point_idx, saved>>

\* checkbox "Simple Edit Mode"
ToggleSimpleEditMode ==
    /\ Interaction
    /\ PageShown
    /\ simple_edit_mode' = ~simple_edit_mode
    /\ UNCHANGED <<drawing, pc, file, os_data, calls, waypoints, use_original_path,
                   cp_modification_history, selected_waypoint_idx, clicked,
                   simple_edit_points, selected_edit_point_idx, saved>>

\* what the handler of a chart event does with this point, both edit modes off
normal_click(point) ==
    /\  LET point_idx ==
                IF point.pointIndexes # NoList
                THEN PyOr(point.pointIndex,
                          PyOr(point.point_number, point.pointIndexes[1]))
                ELSE None
        IN  IF /\ point.name = ControlPointsTrace
               /\ point_idx # None
               /\ point_idx < Len(waypoints)
            THEN /\ selected_waypoint_idx' =
                        IF selected_waypoint_idx = point_idx THEN None ELSE point_idx
                 /\ UNCHANGED clicked
            ELSE /\ clicked' = [lon |-> point.lon, lat |-> point.lat]
                 /\ UNCHANGED selected_waypoint_idx
    /\ UNCHANGED <<drawing, pc, file, os_data, calls, waypoints, use_original_path,
                   cp_modification_history, simple_edit_mode, simple_edit_points,
                   selected_edit_point_idx, saved>>

\* a click on the chart while both edit modes are off
ClickInNormalMode ==
    /\ Interaction
    /\ ~simple_edit_mode
    /\ ~draw_path_mode
    /\ PageShown
    /\ \E point \in ChartPoints : normal_click(point)

\* the click that delivers this point
NormalClick(point) ==
    /\ Interaction
    /\ ~simple_edit_mode
    /\ ~draw_path_mode
    /\ point \in ChartPoints
    /\ PageShown
    /\ normal_click(point)

\* what the handler of a chart event does with this point, Simple Edit Mode
\* on; path is the expert path the run has computed above
simple_edit_click(point, path) ==
    /\  LET clicked_lon == PyOr(point.lon, None)
            clicked_lat == PyOr(point.lat, None)
            point_idx == PyOr(point.pointIndex, point.point_number)
            edit_points == simple_edit_points
            selected_edit_idx == selected_edit_point_idx
        IN  IF clicked_lon = None \/ clicked_lat = None
            THEN UNCHANGED <<simple_edit_points, selected_edit_point_idx>>
            ELSE IF point.name = EditPointsTrace
            THEN IF point_idx # None /\ point_idx < Len(edit_points)
                 THEN /\ selected_edit_point_idx' =
                            IF selected_edit_idx = point_idx THEN None ELSE point_idx
                      /\ UNCHANGED simple_edit_points
                 ELSE UNCHANGED <<simple_edit_points, selected_edit_point_idx>>
            ELSE IF selected_edit_idx # None
            THEN IF selected_edit_idx < Len(edit_points)
                 THEN /\ simple_edit_points' =
                            [edit_points EXCEPT ![selected_edit_idx + 1] =
                                [@ EXCEPT !.lon = clicked_lon, !.lat = clicked_lat]]
                      /\ selected_edit_point_idx' = None
                 ELSE UNCHANGED <<simple_edit_points, selected_edit_point_idx>>
            ELSE /\ LET closest == closest_idx(path, clicked_lon, clicked_lat)
                    IN  IF closest = {}
                        THEN UNCHANGED simple_edit_points
                        ELSE \E idx \in closest :
                                simple_edit_points' = Append(edit_points,
                                    [lon |-> clicked_lon, lat |-> clicked_lat,
                                     time |-> path[idx + 1].time, idx |-> idx])
                 /\ UNCHANGED selected_edit_point_idx
    /\ UNCHANGED <<drawing, pc, file, os_data, calls, waypoints, use_original_path,
                   cp_modification_history, selected_waypoint_idx, clicked,
                   simple_edit_mode, saved>>

\* a click on the chart while Simple Edit Mode is on
ClickInSimpleEditMode ==
    /\ Interaction
    /\ simple_edit_mode
    /\ PageShown
    /\ LET path == expert_path.rows
       IN  \E point \in ChartPoints : simple_edit_click(point, path)

\* the click that delivers this point
SimpleEditClick(point) ==
    /\ Interaction
    /\ simple_edit_mode
    /\ point \in ChartPoints
    /\ PageShown
    /\ simple_edit_click(point, expert_path.rows)

\* checkbox "Draw Path Mode"
ToggleDrawPathMode ==
    /\ Interaction
    /\ PageShown
    /\ draw_path_mode' = ~draw_path_mode
    /\ UNCHANGED <<drawn_path_points, use_drawn_path, drawn_path, pc, file, os_data,
                   calls, waypoints, use_original_path, cp_modification_history,
                   selected_waypoint_idx, clicked, simple_edit_mode,
                   simple_edit_points, selected_edit_point_idx, saved>>

\* a click on the chart while Draw Path Mode is on and Simple Edit Mode is off:
\* the clicked position becomes the next point of the drawn path
ClickInDrawMode ==
    /\ Interaction
    /\ ~simple_edit_mode
    /\ draw_path_mode
    /\ PageShown
    /\ \E point \in ChartPoints :
          drawn_path_points' = Append(drawn_path_points,
              [lon |-> point.lon, lat |-> point.lat,
               time |-> Len(drawn_path_points) * 10])
    /\ UNCHANGED <<draw_path_mode, use_drawn_path, drawn_path, pc, file, os_data,
                   calls, waypoints, use_original_path, cp_modification_history,
                   selected_waypoint_idx, clicked, simple_edit_mode,
                   simple_edit_points, selected_edit_point_idx, saved>>

\* the drawn points as a path over the loaded trajectory's time range:
\* drawn_times = np.linspace(min_time, max_time, len(drawn_points))
drawn_path_df(points, t_min, t_max) ==
    [i \in 1..Len(points) |->
        LET t == Linspace(t_min, t_max, Len(points), i - 1)
        IN  [time |-> Num(t[1], t[2]), lon |-> Int2V(points[i].lon),
             lat |-> Int2V(points[i].lat)]]

\* button "Convert to Expert Path"
ConvertDrawnPath ==
    /\ Interaction
    /\ PageShown
    /\ Len(drawn_path_points) > 0
    /\ drawn_path' = drawn_path_df(drawn_path_points, SeqMin(TimeColumn(os_data)),
                                   SeqMax(TimeColumn(os_data)))
    /\ use_drawn_path' = TRUE
    /\ use_original_path' = FALSE
    /\ UNCHANGED <<draw_path_mode, drawn_path_points, pc, file, os_data, calls,
                   waypoints, cp_modification_history, selected_waypoint_idx, clicked,
                   simple_edit_mode, simple_edit_points, selected_edit_point_idx,
                   saved>>

\* button "Clear Drawn Path"
ClearDrawnPath ==
    /\ Interaction
    /\ PageShown
    /\ Len(drawn_path_points) > 0
    /\ drawn_path_points' = <<>>
    /\ use_drawn_path' = FALSE
    /\ drawn_path' = <<>>
    /\ UNCHANGED <<draw_path_mode, pc, file, os_data, calls, waypoints,
                   use_original_path, cp_modification_history, selected_waypoint_idx,
                   clicked, simple_edit_mode, simple_edit_points,
                   selected_edit_point_idx, saved>>

\* waypoints_df with every row from point_idx on moved to (lon, lat)
waypoints_moved_from(wps, point_idx, lon, lat) ==
    [i \in 1..Len(wps) |->
        IF i >= point_idx + 1 THEN [wps[i] EXCEPT !.lon = lon, !.lat = lat]
        ELSE wps[i]]

\* waypoints_df with the lon/lat (and x/y) of row point_idx set to (lon, lat)
waypoints_moved(wps, point_idx, lon, lat) ==
    [wps EXCEPT ![point_idx + 1] = [@ EXCEPT !.lon = lon, !.lat = lat]]

\* df.iloc[idx] raises IndexError
iloc_raises(df, idx) == idx >= Len(df) \/ idx < -Len(df)

\* button "Move CP Here"; the handler assigns waypoints, cp_modification_history,
\* use_original_path and clicked_lon/lat, and selected_waypoint_idx keeps the
\* value `selected` that the run read at its start
MoveCP(selected) ==
    /\ Interaction
    /\ PageShown
    /\ clicked # NoClick
    /\ selected_waypoint_idx # None
    /\ LET point_idx == selected_waypoint_idx
       IN  IF iloc_raises(waypoints, point_idx)
           THEN \* the exception ends the run
                UNCHANGED <<waypoints, cp_modification_history, use_original_path,
                            clicked, selected_waypoint_idx>>
           ELSE /\ waypoints' = waypoints_moved(waypoints, point_idx,
                                                clicked.lon, clicked.lat)
                /\ cp_modification_history' = Append(cp_modification_history,
                        [cp_id |-> point_idx,
                         time |-> waypoints[point_idx + 1].time,
                         old_lon |-> waypoints[point_idx + 1].lon,
                         old_lat |-> waypoints[point_idx + 1].lat,
                         new_lon |-> clicked.lon, new_lat |-> clicked.lat])
                /\ use_original_path' = FALSE
                /\ clicked' = NoClick
                /\ selected_waypoint_idx' = selected
    /\ UNCHANGED <<drawing, pc, file, os_data, calls, simple_edit_mode,
                   simple_edit_points, selected_edit_point_idx, saved>>

\* "Move CP Here" that also drops the selection
MoveCPHereDeselecting ==
    MoveCP(None)

MoveCPHere ==
    MoveCP(selected_waypoint_idx)

\* buttons "Clear" next to the clicked coordinates
ClearClicked ==
    /\ Interaction
    /\ PageShown
    /\ clicked # NoClick
    /\ clicked' = NoClick
    /\ UNCHANGED <<drawing, pc, file, os_data, calls, waypoints, use_original_path,
                   cp_modification_history, selected_waypoint_idx, simple_edit_mode,
                   simple_edit_points, selected_edit_point_idx, saved>>

\* button "Delete Selected Point"
DeleteSelectedPoint ==
    /\ Interaction
    /\ PageShown
    /\ simple_edit_mode
    /\ Len(simple_edit_points) > 0
    /\ selected_edit_point_idx # None
    /\ IF selected_edit_point_idx >= Len(simple_edit_points)
       THEN \* edit_points.pop(selected_edit_idx) raises IndexError
            UNCHANGED <<simple_edit_points, selected_edit_point_idx>>
       ELSE /\ simple_edit_points' =
                 SubSeq(simple_edit_points, 1, selected_edit_point_idx)
                 \o SubSeq(simple_edit_points, selected_edit_point_idx + 2,
                           Len(simple_edit_points))
            /\ selected_edit_point_idx' = None
    /\ UNCHANGED <<drawing, pc, file, os_data, calls, waypoints, use_original_path,
                   cp_modification_history, selected_waypoint_idx, clicked,
                   simple_edit_mode, saved>>

\* button "Clear All Edit Points"
ClearAllEditPoints ==
    /\ Interaction
    /\ PageShown
    /\ simple_edit_mode
    /\ Len(simple_edit_points) > 0
    /\ selected_edit_point_idx = None
    /\ simple_edit_points' = <<>>
    /\ selected_edit_point_idx' = None
    /\ UNCHANGED <<drawing, pc, file, os_data, calls, waypoints, use_original_path,
                   cp_modification_history, selected_waypoint_idx, clicked,
                   simple_edit_mode, saved>>

\* button "Apply Edit Points to Expert Path".  The handler stores the
\* waypoints and the flag; its next statement assigns
\* st.session_state['simple_edit_mode'] after the checkbox of that key was
\* created in the same run, which Streamlit refuses with an exception, so
\* the mode, the edit points and the rerun behind it are not reached.
ApplyEditPoints ==
    /\ Interaction
    /\ PageShown
    /\ simple_edit_mode
    /\ Len(simple_edit_points) > 0
    /\ waypoints' = edit_waypoints_df(simple_edit_points)
    /\ use_original_path' = FALSE
    /\ UNCHANGED <<drawing, pc, file, os_data, calls, cp_modification_history,
                   selected_waypoint_idx, clicked, simple_edit_mode,
                   simple_edit_points, selected_edit_point_idx, saved>>

\* button "Save Expert Trajectory"; reset is the value of the checkbox
\* "Reset after save"
SaveExpertTrajectory ==
    /\ Interaction
    /\ SaveShown
    /\ saved' = preview_path.source
    /\ \E reset \in BOOLEAN :
        IF reset
        THEN /\ use_original_path' = TRUE
             /\ use_drawn_path' = FALSE
             /\ drawn_path' = <<>>
             /\ drawn_path_points' = <<>>
             /\ cp_modification_history' = <<>>
             /\ waypoints' = initialize_waypoints_from_trajectory(os_data, 5)
        ELSE UNCHANGED <<use_original_path, use_drawn_path, drawn_path,
                         drawn_path_points, cp_modification_history, waypoints>>
    /\ UNCHANGED <<draw_path_mode, pc, file, os_data, calls, selected_waypoint_idx, clicked,
                   simple_edit_mode, simple_edit_points, selected_edit_point_idx>>

Next ==
    \/ LoadTrajectories
    \/ ToggleSimpleEditMode
    \/ ToggleDrawPathMode
    \/ ClickInNormalMode
    \/ ClickInSimpleEditMode
    \/ ClickInDrawMode
    \/ ConvertDrawnPath
    \/ ClearDrawnPath
    \/ MoveCPHere
    \/ ClearClicked
    \/ DeleteSelectedPoint
    \/ ClearAllEditPoints
    \/ ApplyEditPoints
    \/ SaveExpertTrajectory

Spec == Init /\ [][Next]_vars

-----------------------------------------------------------------------------
(* SpecGeo: the chart canvas of the simulator, SimCanvas.  A position      *)
(* (lat, lon) is converted to a canvas offset by convert_latlon_to_xy, the *)
(* paint methods draw it at that offset times the zoom level from the      *)
(* middle of the widget, and a left press recentres the chart on the       *)
(* pressed position.  Degrees, offsets and zoom levels are exact           *)
(* rationals; positions are whole minutes.                                 *)

MaxMinutes == 2     \* positions lie within this many minutes of (0, 0)
MaxZoom == 2        \* most wheel steps away from zoom level 1.0
CanvasWidth == 900  \* self.width() of the canvas
CanvasHeight == 700 \* self.height() of the canvas

\* a + b, a - b, a * b and a / b on rationals
RAdd(a, b) ==
    LET g == GCD(a.d, b.d)
    IN  Num(a.n * (b.d \div g) + b.n * (a.d \div g), a.d * (b.d \div g))
RSub(a, b) == RAdd(a, [b EXCEPT !.n = -b.n])
RMul(a, b) ==
    LET g == GCD(Abs(a.n), b.d)
        h == GCD(Abs(b.n), a.d)
    IN  Num((a.n \div Max(g, 1)) * (b.n \div Max(h, 1)),
            (a.d \div Max(h, 1)) * (b.d \div Max(g, 1)))
RDiv(a, b) == RMul(a, Num(b.d, b.n))
\* Python int(): towards zero
Trunc(a) == IF a.n >= 0 THEN a.n \div a.d ELSE -((-a.n) \div a.d)
RECURSIVE Pow(_, _)
Pow(b, e) == IF e = 0 THEN 1 ELSE b * Pow(b, e - 1)

\* positions: whole minutes as degrees
Degrees == {Num(m, 60) : m \in (-MaxMinutes)..MaxMinutes}

\* x, y of convert_latlon_to_xy
convert_latlon_to_xy(lat, lon, c_lat, c_lon) ==
    LET lat_diff == RSub(lat, c_lat)
        lon_diff == RSub(lon, c_lon)
        x == RMul(RMul(lon_diff, Int2V(60)), Int2V(70))
        y == RMul(RMul(RSub(Int2V(0), lat_diff), Int2V(60)), Int2V(70))
    IN  <<x, y>>

\* the middle of the widget
center_x == CanvasWidth \div 2
center_y == CanvasHeight \div 2

\* where draw_landmarks puts the converted position on the widget
draw_position(p, zoom) ==
    <<Trunc(RAdd(Int2V(center_x), RMul(p[1], zoom))),
      Trunc(RAdd(Int2V(center_y), RMul(p[2], zoom)))>>

scale_factor == 70
\* new_lat, new_lon of mousePressEvent for a left press at (new_x, new_y)
pressed_center(new_x, new_y, c_lat, c_lon, zoom) ==
    LET rel_x == RDiv(Int2V(new_x - center_x), RMul(Int2V(scale_factor), zoom))
        rel_y == RDiv(Int2V(new_y - center_y), RMul(Int2V(scale_factor), zoom))
        new_lat == RSub(c_lat, RDiv(rel_y, Int2V(60 * 70)))
        new_lon == RAdd(c_lon, RDiv(rel_x, Int2V(60 * 70)))
    IN  <<new_lat, new_lon>>

InitGeo ==
    /\ pc = "canvas"
    /\ file = NoFile
    /\ os_data = <<>>
    /\ arg_waypoints = <<>>
    /\ arg_steps = 0
    /\ result = NoResult
    /\ arg_traj = <<>>
    /\ arg_count = 0
    /\ wp_result = <<>>
    /\ NoSession
    /\ arg_lat \in Degrees
    /\ arg_lon \in Degrees
    /\ center_lat \in Degrees
    /\ center_lon \in Degrees
    /\ zoom_level = Int2V(1)
    /\ xy = <<>>
    /\ event = <<>>
    /\ NoRadar
    /\ NoWindow
    /\ NoPlayback

\* wheelEvent: one step in (delta > 0) or out
WheelEvent ==
    /\ pc = "canvas"
    /\ \E zoom_in \in BOOLEAN :
        LET z == IF zoom_in
                 THEN LET up == RMul(zoom_level, Num(6, 5))
                      IN  IF VLeq(up, Int2V(5)) THEN up ELSE Int2V(5)
                 ELSE LET down == RDiv(zoom_level, Num(6, 5))
                      IN  IF VLeq(Num(1, 5), down) THEN down ELSE Num(1, 5)
        IN  /\ z.n <= Pow(6, MaxZoom)
            /\ z.d <= Pow(6, MaxZoom)
            /\ zoom_level' = z
    /\ UNCHANGED <<pc, file, os_data, calls, session, runs, playback, arg_lat, arg_lon,
                   center_lat, center_lon, xy, event, radar, window>>

\* paintEvent: the position (arg_lat, arg_lon) is converted for drawing
ConvertLatLonToXY ==
    /\ pc = "canvas"
    /\ xy' = convert_latlon_to_xy(arg_lat, arg_lon, center_lat, center_lon)
    /\ pc' = "converted"
    /\ UNCHANGED <<file, os_data, calls, session, runs, playback, arg_lat, arg_lon,
                   center_lat, center_lon, zoom_level, event, radar, window>>

\* mousePressEvent: a left press on the place where the position is drawn
MousePressEvent ==
    /\ pc = "converted"
    /\ LET at == draw_position(xy, zoom_level)
           new == pressed_center(at[1], at[2], center_lat, center_lon, zoom_level)
       IN  /\ event' = at
           /\ center_lat' = new[1]
           /\ center_lon' = new[2]
    /\ pc' = "pressed"
    /\ UNCHANGED <<file, os_data, calls, session, runs, playback, arg_lat, arg_lon,
                   zoom_level, xy, radar, window>>

NextGeo ==
    \/ WheelEvent
    \/ ConvertLatLonToXY
    \/ MousePressEvent

SpecGeo == InitGeo /\ [][NextGeo]_vars

-----------------------------------------------------------------------------
(* SpecRadar: the target ships on the radar picture of SimCanvas.          *)
(* draw_target_ships (relative motion) turns every ship about the middle   *)
(* of the widget by the own ship's heading, draw_target_ships_true_motion  *)
(* leaves it where it is, and both hand the result to draw_ship, which     *)
(* translates the painter to int(x), int(y) and rotates it by the heading. *)
(* The two scripts differ in the heading they hand over.  Positions are    *)
(* exact rationals in pixels; the own ship heads along a quadrant, where   *)
(* math.cos and math.sin are 1, 0 or -1 up to the last bit of a float.     *)

MaxShips == 2       \* most target ships on the picture

Versions == {"250808", "250813"}
OsHeadings == {0, 90, 180, 270}
TargetHeadings == {0, 90, 350}
\* a ship's offsets from the middle of the widget, in pixels
OffsetsX == {Int2V(-70), Int2V(0), Num(141, 2)}
OffsetsY == {Int2V(-70), Num(141, 2)}
TargetShips ==
    {[x |-> RAdd(Int2V(center_x), dx), y |-> RAdd(Int2V(center_y), dy),
      heading |-> h, bearing |-> h] :
        dx \in OffsetsX, dy \in OffsetsY, h \in TargetHeadings}

\* math.cos(math.radians(h)) and math.sin(math.radians(h))
cos_h_shifted(h) ==
    CASE h % 360 = 0 -> 0 [] h % 360 = 90 -> -1
      [] h % 360 = 180 -> 0 [] h % 360 = 270 -> 1
cos_h(h) ==
    CASE h % 360 = 0 -> 1 [] h % 360 = 90 -> 0
      [] h % 360 = 180 -> -1 [] h % 360 = 270 -> 0
sin_h(h) ==
    CASE h % 360 = 0 -> 0 [] h % 360 = 90 -> 1
      [] h % 360 = 180 -> 0 [] h % 360 = 270 -> -1

\* what draw_target_ships hands to draw_ship for one ship
draw_target_ships(v, ship, c_x, c_y, heading) ==
    LET rel_x == RSub(ship.x, Int2V(c_x))
        rel_y == RSub(ship.y, Int2V(c_y))
        rotated_x == RAdd(RMul(rel_x, Int2V(cos_h(heading))),
                          RMul(rel_y, Int2V(sin_h(heading))))
        rotated_y == RAdd(RMul(RSub(Int2V(0), rel_x), Int2V(sin_h(heading))),
                          RMul(rel_y, Int2V(cos_h(heading))))
        relative_heading == (ship.heading - heading) % 360
        absolute_heading == ship.heading
    IN  [x |-> RAdd(Int2V(c_x), rotated_x),
         y |-> RAdd(Int2V(c_y), rotated_y),
         heading |-> IF v = "250808" THEN relative_heading
                     ELSE absolute_heading]

\* what draw_target_ships_true_motion hands to draw_ship for one ship
draw_target_ships_true_motion(ship) ==
    [x |-> ship.x, y |-> ship.y, heading |-> ship.heading]

\* draw_ship: where the painter is put and the heading it is turned to
draw_ship(v, a) ==
    [x |-> Trunc(a.x), y |-> Trunc(a.y),
     heading |-> IF v = "250813" THEN a.heading % 360 ELSE a.heading]

RECURSIVE SeqsUpTo(_, _)
\* the sequences over S of length 1..n
SeqsUpTo(S, n) ==
    IF n = 0 THEN {}
    ELSE {<<e>> : e \in S}
         \cup {Append(q, e) : q \in SeqsUpTo(S, n - 1), e \in S}

InitRadar ==
    /\ pc = "radar"
    /\ file = NoFile
    /\ os_data = <<>>
    /\ arg_waypoints = <<>>
    /\ arg_steps = 0
    /\ result = NoResult
    /\ arg_traj = <<>>
    /\ arg_count = 0
    /\ wp_result = <<>>
    /\ NoSession
    /\ arg_lat = Int2V(0)
    /\ arg_lon = Int2V(0)
    /\ center_lat = Int2V(0)
    /\ center_lon = Int2V(0)
    /\ zoom_level = Int2V(1)
    /\ xy = <<>>
    /\ event = <<>>
    /\ version \in Versions
    /\ ships \in SeqsUpTo(TargetShips, MaxShips)
    /\ os_heading \in OsHeadings
    /\ painted = <<>>
    /\ NoWindow
    /\ NoPlayback

\* the targets painted in relative motion
DrawTargetShips ==
    /\ pc = "radar"
    /\ painted' = [i \in 1..Len(ships) |->
                    draw_ship(version,
                              draw_target_ships(version, ships[i], center_x,
                                                center_y, os_heading))]
    /\ pc' = "relative"
    /\ UNCHANGED <<file, os_data, calls, session, runs, playback, arg_lat, arg_lon,
                   center_lat, center_lon, zoom_level, xy, event, version,
                   ships, os_heading, window>>

\* the targets painted in true motion
DrawTargetShipsTrueMotion ==
    /\ pc = "radar"
    /\ painted' = [i \in 1..Len(ships) |->
                    draw_ship(version, draw_target_ships_true_motion(ships[i]))]
    /\ pc' = "true"
    /\ UNCHANGED <<file, os_data, calls, session, runs, playback, arg_lat, arg_lon,
                   center_lat, center_lon, zoom_level, xy, event, version,
                   ships, os_heading, window>>

NextRadar ==
    \/ DrawTargetShips
    \/ DrawTargetShipsTrueMotion

SpecRadar == InitRadar /\ [][NextRadar]_vars

-----------------------------------------------------------------------------
(* SpecSim: a simulation run of SimulatorWindow (250813).  The imported    *)
(* tracks are rows [lat, lon, co]; every timer tick update_simulation      *)
(* takes the row at current_time_index of every ship, works out the own    *)
(* ship and the targets and hands them to the canvas.  The ships of a run  *)
(* sail on one parallel or one meridian, so that every bearing between two *)
(* positions is a cardinal direction, where math.atan2 is exact.  Speeds   *)
(* and pixel positions of the ships handed over are left out: the weather  *)
(* step shifts them, and no heading depends on them.                       *)

MaxSamples == 2     \* longest track of a ship

Axes == {"parallel", "meridian"}
\* the position m minutes along the axis from (0, 0)
Position(axis, m) ==
    IF axis = "parallel" THEN [lat |-> Int2V(0), lon |-> Num(m, 60)]
    ELSE [lat |-> Num(m, 60), lon |-> Int2V(0)]
\* n rows of a ship holding its course and speed
Track(axis, start, step, co, n) ==
    [i \in 1..n |->
        [lat |-> Position(axis, start + (i - 1) * step).lat,
         lon |-> Position(axis, start + (i - 1) * step).lon,
         co |-> co]]
OsCourses == {NaN, Int2V(0), Int2V(400)}
TsCourses == {NaN, Int2V(90), Int2V(270), Int2V(350)}
OsTracks(axis) ==
    {<<>>} \cup {Track(axis, start, step, co, n) :
                    start \in {-1, 1}, step \in {1}, co \in OsCourses,
                    n \in 1..MaxSamples}
TsTracks(axis) ==
    {<<>>} \cup {Track(axis, start, step, co, n) :
                    start \in {-1, 1}, step \in {-1, 1}, co \in TsCourses,
                    n \in 1..MaxSamples}
Ts2Tracks(axis) == {<<>>, Track(axis, -2, 0, Int2V(90), 1)}
DialValues == {0, 360}

TargetIds == <<"TS1", "TS2">>
ShipIds == <<"OS", "TS1", "TS2">>

\* float(v) % 360
PyMod360(v) == IF IsNum(v) THEN Num(v.n % (360 * v.d), v.d) ELSE v
\* abs(v)
RAbs(v) == [v EXCEPT !.n = Abs(v.n)]

\* math.degrees(math.atan2(dx, -dy)) in a cardinal direction
atan2_degrees(dx, dy) ==
    CASE dx.n = 0 /\ dy.n <= 0 -> 0
      [] dx.n = 0 /\ dy.n > 0 -> 180
      [] dx.n > 0 /\ dy.n = 0 -> 90
      [] dx.n < 0 /\ dy.n = 0 -> -90

\* bearing of update_simulation: from the chart centre to the offset (x, y)
bearing_to(x, y) ==
    LET bearing == atan2_degrees(x, y)
    IN  Int2V(IF bearing < 0 THEN bearing + 360 ELSE bearing)

\* normalized_heading of update_simulation for a target's course and bearing
normalized_heading_from_90(co, bearing) ==
    LET raw_heading == IF co.k = "nan" THEN Int2V(0) ELSE co
        normalized == PyMod360(raw_heading)
        diff == RAbs(RSub(normalized, bearing))
        direction_diff ==
            IF VLt(Int2V(180), diff) THEN RSub(Int2V(360), diff) ELSE diff
    IN  IF VLeq(Int2V(90), direction_diff) THEN bearing ELSE normalized
normalized_heading(co, bearing) ==
    LET raw_heading == IF co.k = "nan" THEN Int2V(0) ELSE co
        normalized == PyMod360(raw_heading)
        diff == RAbs(RSub(normalized, bearing))
        direction_diff ==
            IF VLt(Int2V(180), diff) THEN RSub(Int2V(360), diff) ELSE diff
    IN  IF VLt(Int2V(90), direction_diff) THEN bearing ELSE normalized

\* normalized_os_heading of update_simulation in AIS auto mode
normalized_os_heading(co) ==
    PyMod360(IF co.k = "nan" THEN Int2V(0) ELSE co)

\* the dict update_simulation appends to ships for the row ts_data
target_ship(ts_data, c_lat, c_lon) ==
    LET p == convert_latlon_to_xy(ts_data.lat, ts_data.lon, c_lat, c_lon)
        bearing == bearing_to(p[1], p[2])
    IN  [heading |-> normalized_heading(ts_data.co, bearing),
         bearing |-> bearing, lat |-> ts_data.lat, lon |-> ts_data.lon]

\* the tracks of data that have a row at index idx, in the order of ids
RowsAt(data, ids, idx) ==
    LET present == SelectSeq(ids, LAMBDA id : Len(data[id]) > idx)
    IN  [i \in 1..Len(present) |-> data[present[i]][idx + 1]]

RECURSIVE SumOf(_, _)
SumOf(rows, col) ==
    IF rows = <<>> THEN Int2V(0)
    ELSE RAdd(rows[1][col], SumOf(Tail(rows), col))
\* calculate_cluster_center: the mean position
calculate_cluster_center(positions) ==
    [lat |-> RDiv(SumOf(positions, "lat"), Int2V(Len(positions))),
     lon |-> RDiv(SumOf(positions, "lon"), Int2V(Len(positions)))]

InitSim ==
    /\ pc = "simulator"
    /\ file = NoFile
    /\ os_data = <<>>
    /\ arg_waypoints = <<>>
    /\ arg_steps = 0
    /\ result = NoResult
    /\ arg_traj = <<>>
    /\ arg_count = 0
    /\ wp_result = <<>>
    /\ NoSession
    /\ arg_lat = Int2V(0)
    /\ arg_lon = Int2V(0)
    /\ center_lat = Int2V(0)
    /\ center_lon = Int2V(0)
    /\ zoom_level = Int2V(1)
    /\ xy = <<>>
    /\ event = <<>>
    /\ version = "250813"
    /\ ships = <<>>
    /\ os_heading = Int2V(0)
    /\ painted = <<>>
    /\ NoPlayback
    /\ \E axis \in Axes :
        \E os \in OsTracks(axis), ts1 \in TsTracks(axis), ts2 \in Ts2Tracks(axis) :
            /\ sim_ship_data = [OS |-> os, TS1 |-> ts1, TS2 |-> ts2]
            \* update_data_info: the longest track ends the scenario
            /\ scenario_end_time =
                IF Len(os) = 0 /\ Len(ts1) = 0 /\ Len(ts2) = 0 THEN 300
                ELSE Max(Len(os), Max(Len(ts1), Len(ts2)))
    /\ os_control_mode = FALSE
    /\ os_manual_position = [heading |-> Int2V(0)]
    /\ os_heading_wheel = 0
    /\ os_initial_position_set = FALSE
    /\ current_time_index = 0
    /\ is_simulation_running = FALSE
    /\ is_scenario_completed = FALSE
    /\ ownship = [heading |-> Int2V(0)]
    /\ update_error = FALSE

\* set_control_mode(is_manual): the "Manual" and "AIS Auto" buttons
SetControlMode ==
    /\ pc = "simulator"
    /\ \E is_manual \in BOOLEAN :
        /\ os_control_mode' = is_manual
        /\ IF is_manual /\ sim_ship_data.OS # <<>>
           THEN LET co == sim_ship_data.OS[1].co
                    \* QDial.setValue(int(co)) keeps the value in 0..360
                    dial == Clip(Trunc(co), 0, 360)
                IN  IF co.k = "nan"
                    THEN \* int(nan) raises after the heading was copied
                         /\ os_manual_position' = [heading |-> co]
                         /\ UNCHANGED os_heading_wheel
                    ELSE /\ os_heading_wheel' = dial
                         \* a changed dial calls on_os_parameter_changed
                         /\ os_manual_position' =
                               [heading |-> IF dial # os_heading_wheel
                                            THEN Int2V(dial) ELSE co]
           ELSE UNCHANGED <<os_manual_position, os_heading_wheel>>
    /\ UNCHANGED <<pc, file, os_data, calls, session, runs, playback, arg_lat, arg_lon,
                   center_lat, center_lon, zoom_level, xy, event, radar,
                   sim_ship_data, os_initial_position_set, current_time_index,
                   scenario_end_time, is_simulation_running,
                   is_scenario_completed, ownship, update_error>>

\* on_os_parameter_changed: the heading dial is turned in manual mode
OnOsParameterChanged ==
    /\ pc = "simulator"
    /\ os_control_mode
    /\ \E heading \in DialValues \ {os_heading_wheel} :
        /\ os_heading_wheel' = heading
        /\ os_manual_position' = [heading |-> Int2V(heading)]
    /\ UNCHANGED <<pc, file, os_data, calls, session, runs, playback, arg_lat, arg_lon,
                   center_lat, center_lon, zoom_level, xy, event, radar,
                   sim_ship_data, os_control_mode, os_initial_position_set,
                   current_time_index, scenario_end_time,
                   is_simulation_running, is_scenario_completed, ownship,
                   update_error>>

\* start_simulation: the play button
StartSimulation ==
    /\ pc = "simulator"
    /\ ~is_simulation_running
    /\ sim_ship_data # NoShips
    /\ is_simulation_running' = TRUE
    /\ current_time_index' = 0
    /\ update_error' = FALSE
    /\ os_initial_position_set' =
          IF os_control_mode THEN FALSE ELSE os_initial_position_set
    /\ os_manual_position' =
          IF os_control_mode /\ sim_ship_data.OS # <<>>
          THEN [heading |-> sim_ship_data.OS[1].co]
          ELSE os_manual_position
    \* auto_setup_chart_from_ships
    /\ LET loaded == SelectSeq(ShipIds, LAMBDA id : sim_ship_data[id] # <<>>)
           ship_start_positions == RowsAt(sim_ship_data, loaded, 1)
       IN  IF Len(loaded) < 2 \/ ship_start_positions = <<>>
           THEN UNCHANGED <<center_lat, center_lon, zoom_level>>
           ELSE LET center == IF Len(ship_start_positions) = 1
                              THEN ship_start_positions[1]
                              ELSE calculate_cluster_center(ship_start_positions)
                IN  /\ center_lat' = center.lat
                    /\ center_lon' = center.lon
                    /\ zoom_level' = Int2V(1)
    /\ UNCHANGED <<pc, file, os_data, calls, session, runs, playback, arg_lat, arg_lon,
                   xy, event, radar, sim_ship_data, os_control_mode,
                   os_heading_wheel, scenario_end_time, is_scenario_completed,
                   ownship>>

\* stop_simulation, with the own ship of setup_sample_ships on the canvas
stop_simulation ==
    /\ is_simulation_running' = FALSE
    /\ current_time_index' = 0
    /\ ownship' = [heading |-> Int2V(0)]
    /\ ships' = <<>>
    /\ os_heading' = Int2V(0)
    /\ os_initial_position_set' = FALSE

\* update_simulation: a timeout of simulation_timer
UpdateSimulation ==
    /\ pc = "simulator"
    /\ is_simulation_running
    /\ LET idx == current_time_index
           rows == RowsAt(sim_ship_data, ShipIds, idx)
           targets == RowsAt(sim_ship_data, TargetIds, idx)
           has_os == Len(sim_ship_data.OS) > idx
           manual == has_os /\ os_control_mode
           ais_auto == has_os /\ ~os_control_mode
           center ==
               IF manual
               THEN IF ~os_initial_position_set
                    THEN [lat |-> sim_ship_data.OS[idx + 1].lat,
                          lon |-> sim_ship_data.OS[idx + 1].lon]
                    ELSE [lat |-> center_lat, lon |-> center_lon]
               ELSE [lat |-> targets[1].lat, lon |-> targets[1].lon]
           heading ==
               IF manual THEN os_manual_position.heading
               ELSE IF ais_auto
               THEN normalized_os_heading(sim_ship_data.OS[idx + 1].co)
               ELSE targets[1].co
       IN  IF sim_ship_data = NoShips
           THEN stop_simulation
                /\ UNCHANGED <<is_scenario_completed, update_error>>
           ELSE IF idx >= scenario_end_time
           THEN \* complete_scenario
                /\ is_scenario_completed' = TRUE
                /\ stop_simulation
                /\ UNCHANGED update_error
           ELSE IF rows = <<>>
           THEN stop_simulation
                /\ UNCHANGED <<is_scenario_completed, update_error>>
           ELSE IF ais_auto /\ targets # <<>>
           THEN \* center_lat, center_lon are not assigned in this branch:
                \* UnboundLocalError at the first target, caught below
                /\ update_error' = TRUE
                /\ stop_simulation
                /\ UNCHANGED is_scenario_completed
           ELSE /\ ownship' = [heading |-> heading]
                /\ ships' = [i \in 1..Len(targets) |->
                               target_ship(targets[i], center.lat, center.lon)]
                /\ os_heading' = heading
                /\ os_initial_position_set' =
                      IF manual THEN TRUE ELSE os_initial_position_set
                /\ current_time_index' = idx + 1
                /\ UNCHANGED <<is_simulation_running, is_scenario_completed,
                               update_error>>
    /\ UNCHANGED <<pc, file, os_data, calls, session, runs, playback, arg_lat, arg_lon,
                   center_lat, center_lon, zoom_level, xy, event, version,
                   painted, sim_ship_data, os_control_mode, os_manual_position,
                   os_heading_wheel, scenario_end_time>>

NextSim ==
    \/ SetControlMode
    \/ OnOsParameterChanged
    \/ StartSimulation
    \/ UpdateSimulation

SpecSim == InitSim /\ [][NextSim]_vars

-----------------------------------------------------------------------------
(* The animation panel of the Streamlit page ("2. Animation Control" and   *)
(* the time slider).  Times are counted in hundredths of a second: the     *)
(* Playback Speed slider moves in tenths from 0.1 to 5.0 and one frame     *)
(* advances 0.1 * playback_speed seconds, so every time of a session is a  *)
(* whole number of hundredths once the loaded times are.  One action is    *)
(* one run of the script; pc = "playback" while the user is at the page    *)
(* and pc = "unattended" once no further input arrives.                    *)

MaxPlayTime == 130      \* longest loaded trajectory, in hundredths of a second
MinTimes == {0, 50}     \* os_data['time'].min() of the loaded trajectory
Durations == {0, 30, MaxPlayTime}
PlaybackSpeeds == {1, 10, 50}   \* 0.1x, 1.0x, 5.0x
OneSecond == 100
SliderStep == 10        \* step=0.1 of the time slider
SliderTolerance == 1    \* the 0.01 of abs(slider_value - current_value) > 0.01

\* time_step = 0.1 * playback_speed, in hundredths of a second
time_step(speed) == speed

\* new_time = min(current_time + time_step, max_time), not advancing: the
\* frame that would be shown again
next_frame_stalled(t, step, limit) == Min(t, limit)
\* new_time = min(current_time + time_step, max_time)
next_frame(t, step, limit) == Min(t + step, limit)

\* new_time = min(current_time + 1.0, max_time)
step_forward(t, limit) == Min(t + OneSecond, limit)

\* the values the time slider offers between min_time and max_time
SliderValues == {v \in min_time..max_time : (v - min_time) % SliderStep = 0}

\* what st.slider returns: the dragged value, else the value kept under its
\* key, else the default.  The kept value belongs to the slider with the
\* arguments of the run before; time_slider is None again once they change.
slider_return(dragged, default) ==
    IF dragged # None THEN dragged
    ELSE IF time_slider # None THEN time_slider
    ELSE default

\* the value kept for the slider when current_time, its value argument,
\* becomes t
kept_slider(t) == IF t = current_time THEN time_slider ELSE None

\* The script from the auto-play block to the slider, with the session
\* values t and playing the buttons above left behind (no button pressed).
RestOfRun(t, playing, dragged) ==
    IF playing
    THEN \* st.rerun() ends the run before the slider is created
         /\ time_slider' = None
         /\ IF t < max_time
            THEN /\ current_time' = next_frame(t, time_step(playback_speed'),
                                               max_time)
                 /\ is_playing' = TRUE
            ELSE /\ current_time' = t
                 /\ is_playing' = FALSE
    ELSE LET slider_value == slider_return(dragged, t)
         IN  /\ time_slider' = slider_value
             /\ is_playing' = FALSE
             /\ current_time' =
                    IF Abs(slider_value - t) > SliderTolerance
                    THEN slider_value ELSE t

InitPlayback ==
    /\ pc = "playback"
    /\ file = NoFile
    /\ os_data = <<>>
    /\ arg_waypoints = <<>>
    /\ arg_steps = 0
    /\ result = NoResult
    /\ arg_traj = <<>>
    /\ arg_count = 0
    /\ wp_result = <<>>
    /\ NoSession
    /\ arg_lat = Int2V(0)
    /\ arg_lon = Int2V(0)
    /\ center_lat = Int2V(0)
    /\ center_lon = Int2V(0)
    /\ zoom_level = Int2V(1)
    /\ xy = <<>>
    /\ event = <<>>
    /\ NoRadar
    /\ NoWindow
    \* "Load Trajectories" of a sheet whose times run from lo to lo + d
    /\ \E lo \in MinTimes, d \in Durations :
        /\ min_time = lo
        /\ max_time = lo + d
        /\ current_time = lo
    /\ is_playing = FALSE
    /\ playback_speed = 10
    /\ time_slider = None

PlaybackFrame == UNCHANGED <<file, os_data, calls, session, runs, arg_lat,
                             arg_lon, center_lat, center_lon, zoom_level, xy,
                             event, radar, window, min_time, max_time>>

\* the "Reset" button, st.rerun() included
Reset ==
    /\ pc = "playback"
    /\ current_time' = min_time
    /\ is_playing' = FALSE
    /\ time_slider' = kept_slider(min_time)
    /\ UNCHANGED <<pc, playback_speed>>
    /\ PlaybackFrame

\* the "Play/Pause" button
PlayPause ==
    /\ pc = "playback"
    /\ is_playing' = ~is_playing
    /\ UNCHANGED <<pc, current_time, playback_speed, time_slider>>
    /\ PlaybackFrame

\* the "Step +1s" button
StepForward ==
    /\ pc = "playback"
    /\ current_time' = step_forward(current_time, max_time)
    /\ time_slider' = kept_slider(step_forward(current_time, max_time))
    /\ UNCHANGED <<pc, is_playing, playback_speed>>
    /\ PlaybackFrame

\* the user moves the Playback Speed slider; the run goes on to the
\* auto-play block
SetPlaybackSpeed ==
    /\ pc = "playback"
    /\ \E speed \in PlaybackSpeeds \ {playback_speed} :
        playback_speed' = speed
    /\ RestOfRun(current_time, is_playing, None)
    /\ UNCHANGED pc
    /\ PlaybackFrame

\* the user drags the time slider
DragTimeSlider ==
    /\ pc = "playback"
    /\ time_slider # None
    /\ UNCHANGED <<pc, playback_speed>>
    /\ \E v \in SliderValues \ {time_slider} :
        RestOfRun(current_time, is_playing, v)
    /\ PlaybackFrame

\* a run no widget started: the one st.rerun() asks for
AutoAdvance ==
    /\ playback_speed' = playback_speed
    /\ RestOfRun(current_time, is_playing, None)
    /\ UNCHANGED pc
    /\ PlaybackFrame

\* the user leaves the page alone from here on
LeaveAlone ==
    /\ pc = "playback"
    /\ pc' = "unattended"
    /\ UNCHANGED playback
    /\ PlaybackFrame

NextPlayback ==
    \/ Reset
    \/ PlayPause
    \/ StepForward
    \/ SetPlaybackSpeed
    \/ DragTimeSlider
    \/ AutoAdvance
    \/ LeaveAlone

\* st.rerun() after time.sleep(delay) always starts the next run
SpecPlayback == InitPlayback /\ [][NextPlayback]_vars /\ WF_vars(AutoAdvance)

-----------------------------------------------------------------------------
(* Properties of interpolate_path, checked under SpecInterp                *)

Returned == pc = "done" /\ arg_steps > 0
Coincide(w) == \A i \in 1..Len(w) : w[i].lon = w[1].lon /\ w[i].lat = w[1].lat
StrictlyIncreasing(q) == \A i \in 1..(Len(q) - 1) : q[i] < q[i + 1]

\* C1: for every non-empty control-point sequence and every output length
\* M >= 2, interpolate_path returns a path of exactly M rows.
C1_LengthContract ==
    (Returned /\ Len(arg_waypoints) >= 1)
        => (~result.raised /\ Len(result.rows) = arg_steps)

\* C2: for every control-point sequence of size >= 2 the first output sample
\* is the first control point's (lat, lon) and the last output sample is the
\* last control point's (lat, lon), exactly.
C2_EndpointsPreserved ==
    (Returned /\ Len(arg_waypoints) >= 2)
        => LET w == arg_waypoints
               r == result.rows
           IN  /\ ~result.raised
               /\ r # <<>>
               /\ r[1].lon = Int2V(w[1].lon)
               /\ r[1].lat = Int2V(w[1].lat)
               /\ r[Len(r)].lon = Int2V(w[Len(w)].lon)
               /\ r[Len(r)].lat = Int2V(w[Len(w)].lat)

\* C3: when all control points coincide (a single control point, or several
\* copies of one point), interpolate_path returns M copies of that point's
\* (lat, lon); it does not raise and the path holds no undefined value.
C3_ConstantPath ==
    (Returned /\ Len(arg_waypoints) >= 1 /\ Coincide(arg_waypoints))
        => /\ ~result.raised
           /\ Len(result.rows) = arg_steps
           /\ \A j \in 1..Len(result.rows) :
                /\ result.rows[j].lon = Int2V(arg_waypoints[1].lon)
                /\ result.rows[j].lat = Int2V(arg_waypoints[1].lat)

\* C4: consecutive control points at zero distance are merged before the fit,
\* so the cumulative arc length used as the abscissa is strictly increasing
\* for every input and no division by zero occurs (the fit does not raise and
\* no sample is NaN).
C4_AbscissaStrictlyIncreasing ==
    (Returned /\ Len(arg_waypoints) >= 2)
        => /\ StrictlyIncreasing(FitAbscissa(arg_waypoints))
           /\ ~result.raised
           /\ \A j \in 1..Len(result.rows) :
                IsNum(result.rows[j].lon) \/ result.rows[j].lon.k = "spline"

\* C5 (as claimed): without an original time vector the output times start at
\* the first control point's time, end at the last control point's time and
\* are strictly increasing.
C5_TimesSpanControlTimes ==
    (Returned /\ file = NoFile)
        => LET w == arg_waypoints
               r == result.rows
           IN  /\ ~result.raised
               /\ r # <<>>
               /\ r[1].time = w[1].time
               /\ r[Len(r)].time = w[Len(w)].time
               /\ \A j \in 1..(Len(r) - 1) : VLt(r[j].time, r[j + 1].time)

\* C5 (amended): without an original time vector, every path returned for two
\* or more control points has the sample indices 0, 1, ..., M-1 as its times,
\* whatever the control points' times are.
C5_TimesAreIndices ==
    (Returned /\ file = NoFile /\ Len(arg_waypoints) >= 2 /\ ~result.raised)
        => /\ Len(result.rows) = arg_steps
           /\ \A j \in 1..Len(result.rows) : result.rows[j].time = Int2V(j - 1)

\* three control points at times 0, 10, 20 resampled to 3 rows: the last
\* output time is 2, not 20
C5_Witness ==
    /\ Returned /\ file = NoFile /\ ~result.raised
    /\ Len(arg_waypoints) = 3 /\ arg_waypoints[3].time = Int2V(20)
    /\ arg_steps = 3 /\ result.rows[3].time = Int2V(2)

\* C6: in every reconstructed trajectory time[i] <= time[i+1] for all valid
\* i, whichever time branch is taken (vector reused, vector
\* index-interpolated, no vector).
C6_TimeMonotone ==
    (Returned /\ ~result.raised)
        => \A j \in 1..(Len(result.rows) - 1) :
              VLeq(result.rows[j].time, result.rows[j + 1].time)

\* C7: when the original time vector is supplied and its length equals the
\* output length, the output time column is that vector element for element,
\* whatever the control points are.
C7_TimeVectorReused ==
    (Returned /\ file # NoFile /\ Len(os_data) = arg_steps)
        => /\ ~result.raised
           /\ Len(result.rows) = arg_steps
           /\ \A j \in 1..Len(result.rows) :
                result.rows[j].time = Int2V(os_data[j].time)

-----------------------------------------------------------------------------
(* Properties of the edit session, checked under Spec                     *)

\* C8: in every reachable session state the control points' times are strictly
\* increasing: no two control points share a time.
C8_TimesStrictlyIncreasing ==
    \A i \in 1..(Len(waypoints) - 1) :
        VLt(waypoints[i].time, waypoints[i + 1].time)

\* C8 (amended): in every reachable session state the control points' times
\* never decrease from one control point to the next; neighbours may share a
\* time.
C8_TimesNonDecreasing ==
    \A i \in 1..(Len(waypoints) - 1) :
        VLeq(waypoints[i].time, waypoints[i + 1].time)

\* Apply Edit Points has stored three or more edit points that were added out
\* of time order, and two of the stored control points share a time
C8_Witness ==
    /\ simple_edit_mode
    /\ Len(simple_edit_points) >= 3
    /\ waypoints = edit_waypoints_df(simple_edit_points)
    /\ \E i \in 1..(Len(simple_edit_points) - 1) :
            VLt(simple_edit_points[i + 1].time, simple_edit_points[i].time)
    /\ \E i \in 1..(Len(waypoints) - 1) :
            waypoints[i].time = waypoints[i + 1].time

-----------------------------------------------------------------------------
\* the chart point of a click on the marker of control point k
ControlPointMarker(k, keys) ==
    PointOn(ControlPointsTrace, waypoints[k + 1].lon, waypoints[k + 1].lat, k, keys)
\* the chart point of a click on the marker of edit point k
EditPointMarker(k, keys) ==
    PointOn(EditPointsTrace, simple_edit_points[k + 1].lon,
            simple_edit_points[k + 1].lat, k, keys)

\* C11: a click on the marker of any control point (edit point) idx, idx = 0
\* included, toggles the selection: if idx was selected nothing is selected
\* afterwards, otherwise idx is.
C11_SelectToggles ==
    [][/\ \A k \in 0..(Len(waypoints) - 1) : \A keys \in IndexKeys :
            NormalClick(ControlPointMarker(k, keys))
                => selected_waypoint_idx' =
                        IF selected_waypoint_idx = k THEN None ELSE k
       /\ \A k \in 0..(Len(simple_edit_points) - 1) : \A keys \in IndexKeys :
            SimpleEditClick(EditPointMarker(k, keys))
                => selected_edit_point_idx' =
                        IF selected_edit_point_idx = k THEN None ELSE k]_vars

-----------------------------------------------------------------------------
\* new is old but for the lon/lat of the 0-based row sel
OnlyMoved(old, new, sel) ==
    /\ Len(new) = Len(old)
    /\ \A i \in 1..Len(old) :
          /\ new[i].time = old[i].time
          /\ i # sel + 1 => new[i] = old[i]

\* C12: a committed move changes only the selected point's lon/lat: the
\* number of points, the selected point's time and every other point stay as
\* they were (Move CP Here on control points, the move click on edit points).
C12_MoveFrame ==
    [][/\ (selected_waypoint_idx # None /\ clicked # NoClick /\ MoveCPHere)
            => OnlyMoved(waypoints, waypoints', selected_waypoint_idx)
       /\ (selected_edit_point_idx # None /\ ClickInSimpleEditMode)
            => /\ OnlyMoved(simple_edit_points, simple_edit_points',
                            selected_edit_point_idx)
               /\ \A i \in 1..Len(simple_edit_points) :
                     simple_edit_points'[i].idx = simple_edit_points[i].idx]_vars

\* a control point other than the last was moved to a new position
C12_Witness ==
    /\ cp_modification_history # <<>>
    /\ LET m == cp_modification_history[Len(cp_modification_history)]
       IN  /\ m.cp_id + 1 < Len(waypoints)
           /\ <<m.new_lon, m.new_lat>> # <<m.old_lon, m.old_lat>>
           /\ waypoints[m.cp_id + 1].lon = m.new_lon
           /\ waypoints[m.cp_id + 1].lat = m.new_lat
           /\ waypoints[m.cp_id + 1].time = m.time

-----------------------------------------------------------------------------
\* C13 as stated: after every "Move CP Here" that moves a point, no control point
\* is selected.
C13_DeselectedAfterMove ==
    [][(/\ selected_waypoint_idx # None
        /\ clicked # NoClick
        /\ selected_waypoint_idx < Len(waypoints)
        /\ MoveCPHere) => selected_waypoint_idx' = None]_vars

\* C13: "Move CP Here" leaves the control point selected; a move that succeeds
\* clears only the clicked location, so a second move needs a new click on the
\* map and no new selection.
C13_StillSelectedAfterMove ==
    [][(/\ selected_waypoint_idx # None
        /\ clicked # NoClick
        /\ MoveCPHere)
          => /\ selected_waypoint_idx' = selected_waypoint_idx
             /\ selected_waypoint_idx < Len(waypoints) => clicked' = NoClick]_vars

\* a control point has been moved and is still the selected one
C13_Witness ==
    /\ cp_modification_history # <<>>
    /\ clicked = NoClick
    /\ selected_waypoint_idx =
         cp_modification_history[Len(cp_modification_history)].cp_id

-----------------------------------------------------------------------------
\* the expert path of the page after the step
expert_path_next ==
    ExpertPathOf(simple_edit_mode', simple_edit_points', use_drawn_path', drawn_path',
                 use_original_path', waypoints', os_data')

\* C14: after every "Move CP Here" that moves a point, from any reachable state,
\* the control-point variant is the active one: the expert path the page renders
\* is the reconstruction of the current control points.
C14_RenderedFromControlPoints ==
    [][(/\ selected_waypoint_idx # None
        /\ clicked # NoClick
        /\ selected_waypoint_idx < Len(waypoints)
        /\ MoveCPHere)
          => expert_path_next =
                interpolate_path(waypoints', Len(os_data'), TimeColumn(os_data'))]_vars

-----------------------------------------------------------------------------
\* the step appends exactly one entry to the modification history and leaves
\* the expert path off the original trajectory
CommitRecorded ==
    /\ use_original_path' = FALSE
    /\ Len(cp_modification_history') = Len(cp_modification_history) + 1
    /\ SubSeq(cp_modification_history', 1, Len(cp_modification_history))
         = cp_modification_history

\* the chart click that moves the selected edit point
EditPointMove ==
    /\ simple_edit_mode
    /\ selected_edit_point_idx # None
    /\ selected_edit_point_idx < Len(simple_edit_points)
    /\ \E point \in ChartPoints : point.name # EditPointsTrace /\ SimpleEditClick(point)

\* C15: every commit operation (a control point moved with "Move CP Here", an
\* edit point moved by a click, "Apply Edit Points") sets use_original_path to
\* False and appends exactly one entry to the modification history; the entry
\* of a control-point move holds the point's index, its time, and the old and
\* the new coordinates.
C15_CommitsRecorded ==
    [][/\ (/\ selected_waypoint_idx # None
           /\ clicked # NoClick
           /\ selected_waypoint_idx < Len(waypoints)
           /\ MoveCPHere)
             => /\ CommitRecorded
                /\ LET m == cp_modification_history'[Len(cp_modification_history')]
                       cp == waypoints[selected_waypoint_idx + 1]
                   IN  /\ m.cp_id = selected_waypoint_idx
                       /\ m.time = cp.time
                       /\ <<m.old_lon, m.old_lat>> = <<cp.lon, cp.lat>>
                       /\ <<m.new_lon, m.new_lat>> = <<clicked.lon, clicked.lat>>
       /\ EditPointMove => CommitRecorded
       /\ (simple_edit_mode /\ simple_edit_points # <<>> /\ ApplyEditPoints)
             => CommitRecorded]_vars

-----------------------------------------------------------------------------
\* the step leaves the control points, the edit points, the modification
\* history and the flags of the active variant as they are
NothingEdited ==
    UNCHANGED <<waypoints, simple_edit_points, cp_modification_history,
                use_original_path, use_drawn_path, simple_edit_mode>>

\* C16: an edit request whose selected index refers to no existing point ("Move
\* CP Here" with a selected index past the control points, a moving click with
\* a selected index past the edit points) changes nothing and raises nothing.
\* (With no point selected the page offers no way to request a move.)
C16_InvalidRequestIsNoOp ==
    [][/\ (/\ selected_waypoint_idx # None
           /\ clicked # NoClick
           /\ selected_waypoint_idx >= Len(waypoints)
           /\ MoveCPHere)
             => NothingEdited /\ ~iloc_raises(waypoints, selected_waypoint_idx)
       /\ (/\ simple_edit_mode
           /\ selected_edit_point_idx # None
           /\ selected_edit_point_idx >= Len(simple_edit_points)
           /\ ClickInSimpleEditMode)
             => NothingEdited]_vars

-----------------------------------------------------------------------------
\* no row of the path is nearer to (lon, lat) than row idx (0-based), as far as
\* the path's positions are known numbers
NearestOnPath(path, idx, lon, lat) ==
    (\A j \in 1..Len(path) : IsNum(path[j].lon) /\ IsNum(path[j].lat))
        => \A j \in 1..Len(path) :
                ~FracLt(Dist2(path[j], lon, lat), Dist2(path[idx + 1], lon, lat))

\* the step is a click in Simple Edit Mode that appends an edit point
EditPointAdded ==
    /\ simple_edit_mode
    /\ selected_edit_point_idx = None
    /\ Len(simple_edit_points') = Len(simple_edit_points) + 1

\* C17 as stated: the edit point a click adds in Simple Edit Mode lies on the
\* point of the rendered path nearest to the click, and has that point's time.
C17_AnchorSnappedToPath ==
    [][EditPointAdded =>
        LET a == simple_edit_points'[Len(simple_edit_points')]
            path == expert_path.rows
        IN  \A point \in ChartPoints : simple_edit_click(point, path) =>
                /\ a.idx \in 0..(Len(path) - 1)
                /\ NearestOnPath(path, a.idx, point.lon, point.lat)
                /\ Int2V(a.lon) = path[a.idx + 1].lon
                /\ Int2V(a.lat) = path[a.idx + 1].lat
                /\ a.time = path[a.idx + 1].time]_vars

\* C17: the edit point a click adds in Simple Edit Mode lies at the clicked
\* position itself; its time and idx are those of the point of the rendered
\* path nearest to the click.
C17_AnchorAtClick ==
    [][EditPointAdded =>
        LET a == simple_edit_points'[Len(simple_edit_points')]
            path == expert_path.rows
        IN  \A point \in ChartPoints : simple_edit_click(point, path) =>
                /\ a.idx \in 0..(Len(path) - 1)
                /\ NearestOnPath(path, a.idx, point.lon, point.lat)
                /\ a.lon = point.lon
                /\ a.lat = point.lat
                /\ a.time = path[a.idx + 1].time]_vars

\* one edit point, added off the loaded trajectory, with the time of the
\* trajectory's sample that is nearest to it
C17_Witness ==
    /\ simple_edit_mode
    /\ Len(simple_edit_points) = 1
    /\ Len(os_data) > 1
    /\ LET a == simple_edit_points[1]
       IN  /\ a.idx + 1 <= Len(os_data)
           /\ NearestOnPath(OsPath, a.idx, a.lon, a.lat)
           /\ <<Int2V(a.lon), Int2V(a.lat)>>
                # <<OsPath[a.idx + 1].lon, OsPath[a.idx + 1].lat>>
           /\ a.time = OsPath[a.idx + 1].time

-----------------------------------------------------------------------------
\* the sequence q without its element of 0-based index k
Without(q, k) == SubSeq(q, 1, k) \o SubSeq(q, k + 2, Len(q))

\* C18: "Delete Selected Point" removes exactly the selected edit point; with two
\* or more edit points left the rendered path is the reconstruction from them,
\* and with fewer than two left the rendered path is the one rendered before
\* the deletion.
C18_DeleteSelected ==
    [][(/\ simple_edit_mode
        /\ selected_edit_point_idx # None
        /\ selected_edit_point_idx < Len(simple_edit_points)
        /\ DeleteSelectedPoint)
          => /\ simple_edit_points' =
                    Without(simple_edit_points, selected_edit_point_idx)
             /\ IF Len(simple_edit_points') >= 2
                THEN expert_path_next =
                        interpolate_path(edit_waypoints_df(simple_edit_points'),
                                         Len(os_data), TimeColumn(os_data))
                ELSE expert_path_next = expert_path]_vars

-----------------------------------------------------------------------------
\* C19: after every successful "Load Trajectories", from any state, the original
\* variant is the active one and the page renders the newly loaded trajectory,
\* the modification history is empty, and no control point and no edit point
\* is selected.
C19_LoadReplacesSession ==
    [][(os_data' # <<>> /\ LoadTrajectories)
          => /\ use_original_path'
             /\ expert_path_next = [raised |-> FALSE, rows |-> OsPathOf(os_data')]
             /\ cp_modification_history' = <<>>
             /\ selected_waypoint_idx' = None
             /\ selected_edit_point_idx' = None]_vars

-----------------------------------------------------------------------------
(* Property of the canvas conversions, checked under SpecGeo                *)

\* C20: the press-to-geodetic conversion of mousePressEvent is the inverse of
\* convert_latlon_to_xy: for every position, chart centre and zoom level, a
\* press on the place where the converted position is drawn recentres the
\* chart on the position's (lat, lon).
C20_PressInvertsConversion ==
    pc = "pressed" => center_lat = arg_lat /\ center_lon = arg_lon

-----------------------------------------------------------------------------
\* C26: in every reachable state the path written by "Save Expert Trajectory"
\* is the path that is rendered as the Expert Path (the same choice among the
\* edit-point path, the drawn path, the original and the reconstruction from
\* the control points).
C26_SavedIsRendered ==
    (pc = "session" /\ SaveShown) => preview_path.rows = expert_path.rows

-----------------------------------------------------------------------------
\* C27: in every reachable state the selected control-point index is none or
\* a valid index into the current control points, after any sequence of
\* select, "Move CP Here", "Apply Edit Points", reset after save and load.
C27_SelectionValid ==
    selected_waypoint_idx = None
    \/ (0 <= selected_waypoint_idx /\ selected_waypoint_idx < Len(waypoints))

-----------------------------------------------------------------------------
\* the click put the selected edit point at the clicked position
SelectedPointMoved(point) ==
    /\ selected_edit_point_idx # None
    /\ selected_edit_point_idx' = None
    /\ Len(simple_edit_points') = Len(simple_edit_points)
    /\ simple_edit_points'[selected_edit_point_idx + 1].lon = point.lon
    /\ simple_edit_points'[selected_edit_point_idx + 1].lat = point.lat

\* the click added an edit point at the clicked position
PointAppended(point) ==
    /\ Len(simple_edit_points') = Len(simple_edit_points) + 1
    /\ simple_edit_points'[Len(simple_edit_points')].lon = point.lon
    /\ simple_edit_points'[Len(simple_edit_points')].lat = point.lat

\* C28: in Simple Edit Mode a click that carries coordinates and is not on an
\* edit-point marker is never dropped: it moves the selected edit point or
\* appends a new edit point (also when the list of edit points is empty).
C28_ClickNeverDropped ==
    [][\A point \in ChartPoints :
          (/\ simple_edit_mode
           /\ runs' = runs + 1
           /\ point.name # EditPointsTrace
           /\ SimpleEditClick(point))
          => (SelectedPointMoved(point) \/ PointAppended(point))]_vars

-----------------------------------------------------------------------------
(* Properties of the radar picture, checked under SpecRadar               *)

\* C21: when the own ship's heading is 0, the relative-motion projection puts
\* every target at the same (x, y) as the true-motion projection.
C21_SameProjectionAtZero ==
    (pc = "relative" /\ os_heading = 0) =>
        \A i \in 1..Len(ships) :
            LET true_motion ==
                    draw_ship(version, draw_target_ships_true_motion(ships[i]))
            IN  painted[i].x = true_motion.x /\ painted[i].y = true_motion.y

C21_Witness ==
    /\ pc = "relative"
    /\ os_heading = 0
    /\ Len(ships) = 2
    /\ ships[1].x # Int2V(center_x)
    /\ ships[2].y # ships[1].y
    /\ painted[1].x = Trunc(ships[1].x)
    /\ painted[2].y = Trunc(ships[2].y)

\* C22: in relative motion every target is displayed with the heading
\* (target heading - own-ship heading) mod 360, for all headings of the two.
C22_RelativeHeading ==
    pc = "relative" =>
        \A i \in 1..Len(ships) :
            painted[i].heading = (ships[i].heading - os_heading) % 360

-----------------------------------------------------------------------------
(* Properties of the simulation run, checked under SpecSim                 *)

\* the rows the targets on the canvas were worked out from
HandedRows == RowsAt(sim_ship_data, TargetIds, current_time_index - 1)
\* a reported course as a heading: 0 for a missing one, else modulo 360
ReportedCourse(co) == IF co.k = "nan" THEN Int2V(0) ELSE PyMod360(co)
\* |a - b| wrapped to at most 180
WrappedDiff(a, b) ==
    LET d == RAbs(RSub(a, b))
    IN  IF VLt(Int2V(180), d) THEN RSub(Int2V(360), d) ELSE d

C24_BearingAlongTrack ==
    (ships # <<>> /\ current_time_index >= 2) =>
        \A i \in 1..Len(ships) :
            LET previous ==
                    RowsAt(sim_ship_data, TargetIds, current_time_index - 2)[i]
                current == HandedRows[i]
                moved == <<current.lon, current.lat>> # <<previous.lon, previous.lat>>
                p == convert_latlon_to_xy(current.lat, current.lon,
                                          previous.lat, previous.lon)
            IN  moved => ships[i].bearing = bearing_to(p[1], p[2])

\* C25: every heading that update_simulation hands to the canvas (own ship and
\* each target; manual mode, AIS auto mode and the fallback without own-ship
\* data) lies in [0, 360), and a missing course gives heading 0.
InRange(heading) ==
    IsNum(heading) /\ VLeq(Int2V(0), heading) /\ VLt(heading, Int2V(360))
C25_HeadingsInRange ==
    /\ ownship # <<>> => InRange(ownship.heading)
    /\ InRange(os_heading)
    /\ \A i \in 1..Len(ships) : InRange(ships[i].heading)

\* C29: with own-ship data and at least one target loaded in AIS auto mode,
\* each timer tick of update_simulation before the scenario's end advances
\* current_time_index by exactly one, and no internal error stops the run.
C29_TickAdvances ==
    [][(/\ is_simulation_running
        /\ ~os_control_mode
        /\ sim_ship_data.OS # <<>>
        /\ (sim_ship_data.TS1 # <<>> \/ sim_ship_data.TS2 # <<>>)
        /\ current_time_index < scenario_end_time
        /\ UpdateSimulation)
       => (/\ current_time_index' = current_time_index + 1
           /\ ~update_error'
           /\ is_simulation_running')]_vars

-----------------------------------------------------------------------------
(* Properties of initialize_waypoints_from_trajectory, under SpecWaypoints *)

Placed == pc = "done" /\ Len(arg_traj) >= 2

\* C9 (as claimed): the requested count is clamped to [2, len(trajectory)]:
\* at least 2 and at most len(trajectory) control points are returned.
C9_CountClamped ==
    Placed => (2 <= Len(wp_result) /\ Len(wp_result) <= Len(arg_traj))

\* C9 (amended): the count is not clamped: exactly the requested number of
\* control points is returned (min(max(3, len // 20), 10) when none is
\* requested), be it below 2 or above the number of samples.
C9_CountAsRequested ==
    Placed =>
        Len(wp_result) = IF arg_count = None
                         THEN Min(Max(3, Len(arg_traj) \div 20), 10)
                         ELSE arg_count

\* five control points placed on a trajectory of two samples
C9_Witness ==
    Placed /\ Len(arg_traj) = 2 /\ arg_count = 5 /\ Len(wp_result) = 5

\* sample i of the trajectory is at or before (after) the time t
AtOrBefore(i, t) == arg_traj[i].time * t.d <= t.n
Before(i, t) == arg_traj[i].time * t.d < t.n
CopiedFrom(k, i) ==
    /\ wp_result[k].lon = arg_traj[i].lon
    /\ wp_result[k].lat = arg_traj[i].lat

-----------------------------------------------------------------------------
(* Properties of the animation panel, checked under SpecPlayback           *)

\* C30: under any sequence of Reset, Play/Pause, Step +1s and auto-advance
\* runs current_time stays within [min_time, max_time], and once the
\* session is playing and no further input arrives it reaches
\* is_playing = FALSE with current_time = max_time.
C30_PlaybackTerminates ==
    /\ [](min_time <= current_time /\ current_time <= max_time)
    /\ (pc = "unattended" /\ is_playing)
           ~> (~is_playing /\ current_time = max_time)

\* an unattended session that played from before the end has stopped at it
C30_Witness ==
    /\ pc = "unattended"
    /\ ~is_playing
    /\ current_time = max_time
    /\ min_time < max_time
    /\ time_slider = None

====
